---- MODULE Spec2Model ----
(***************************************************************************)
(* Race-chart ingestion of arioneo-redis (server.js): the horse registry   *)
(* (merge / unmerge / rename, alias resolution), the duplicate guard and   *)
(* the save of reviewed races, and the pure parsers of the chart text      *)
(* (finishing positions, race class, final time).                          *)
(*                                                                         *)
(* Strings of the program are sequences of one-character strings, so that  *)
(* case folding, stripping, substring search and the regular expressions   *)
(* of the source are computed character by character.                      *)
(***************************************************************************)
EXTENDS Naturals, Sequences, FiniteSets

VARIABLES
    redis,          \* TRUE when the Upstash client is configured (let redis)
    horseMapping,   \* the stored 'horse-mapping' object, keys in insertion order
    session,        \* the stored 'arioneo-main-session' (Null when never saved)
    request,        \* the body of the last HTTP request
    response,       \* the JSON body of the last HTTP response
    opCount,        \* registry requests served plus race records submitted so far
    digitsStr,      \* parsePositions: argument digitsStr
    expectedCount,  \* parsePositions: argument expectedCount
    positions,      \* parsePositions: returned array
    text,           \* extractRaceMetadata: the document text (words)
    raceType,       \* extractRaceMetadata: the resolved raceType
    afterHorse,     \* parseHorseFromChart: the row after the horse name
    finalTime,      \* parseHorseFromChart: the selected finalTime
    pc,             \* a parser call: "start" or "done"; "served" between requests
    inFlight        \* the save requests in flight: position in the handler, locals

vars == <<redis, horseMapping, session, request, response, opCount, digitsStr,
          expectedCount, positions, text, raceType, afterHorse, finalTime, pc,
          inFlight>>

storeVars == <<redis, horseMapping, session, request, response, opCount, inFlight>>
positionVars == <<digitsStr, expectedCount, positions>>
classVars == <<text, raceType>>
timeVars == <<afterHorse, finalTime>>

(***************************************************************************)
(* Characters and JavaScript string primitives                             *)
(***************************************************************************)
Digits == {"0", "1", "2", "3", "4", "5", "6", "7", "8", "9"}
UpperLetters == {"G", "I", "N", "S", "T", "O"}
LowerLetters == {"g", "i", "n", "s", "t", "o"}

IsDigit(c) == c \in Digits
IsLetter(c) == c \in UpperLetters \cup LowerLetters
IsAlnum(c) == IsLetter(c) \/ IsDigit(c)
IsWordChar(c) == IsAlnum(c) \/ c = "_"
IsSpace(c) == c \in {" ", "\n"}

LowerChar(c) ==
    CASE c = "G" -> "g" [] c = "I" -> "i" [] c = "N" -> "n"
      [] c = "S" -> "s" [] c = "T" -> "t" [] c = "O" -> "o"
      [] OTHER -> c

UpperChar(c) ==
    CASE c = "g" -> "G" [] c = "i" -> "I" [] c = "n" -> "N"
      [] c = "s" -> "S" [] c = "t" -> "T" [] c = "o" -> "O"
      [] OTHER -> c

DigitVal(c) ==
    CASE c = "0" -> 0 [] c = "1" -> 1 [] c = "2" -> 2 [] c = "3" -> 3
      [] c = "4" -> 4 [] c = "5" -> 5 [] c = "6" -> 6 [] c = "7" -> 7
      [] c = "8" -> 8 [] c = "9" -> 9

toLowerCase(s) == [i \in 1..Len(s) |-> LowerChar(s[i])]
toUpperCase(s) == [i \in 1..Len(s) |-> UpperChar(s[i])]

\* s.substring(from) with a 1-based first index
Drop(s, n) == SubSeq(s, n + 1, Len(s))
Take(s, n) == SubSeq(s, 1, n)

\* number of leading / trailing characters of s that satisfy P
RECURSIVE LeadCount(_, _, _)
LeadCount(s, P(_), i) ==
    IF i > Len(s) \/ ~P(s[i]) THEN i - 1 ELSE LeadCount(s, P, i + 1)

RECURSIVE TrailCount(_, _, _)
TrailCount(s, P(_), n) ==
    IF n >= Len(s) \/ ~P(s[Len(s) - n]) THEN n ELSE TrailCount(s, P, n + 1)

StripLead(s, P(_)) == Drop(s, LeadCount(s, P, 1))
StripTrail(s, P(_)) == Take(s, Len(s) - TrailCount(s, P, 0))

trim(s) == StripTrail(StripLead(s, IsSpace), IsSpace)

\* t occurs in s at 1-based index i
OccursAt(s, t, i) == i >= 1 /\ i + Len(t) - 1 <= Len(s) /\ SubSeq(s, i, i + Len(t) - 1) = t
includes(s, t) == \E i \in 1..(Len(s) + 1) : OccursAt(s, t, i)

\* the sequences over S of length at most n (the inputs drawn by the requests)
RECURSIVE SeqsUpTo(_, _)
SeqsUpTo(S, n) ==
    IF n = 0 THEN {<<>>}
    ELSE LET shorter == SeqsUpTo(S, n - 1)
         IN  shorter \cup {Append(q, x) : q \in {r \in shorter : Len(r) = n - 1}, x \in S}

\* the concatenation of a sequence of strings
RECURSIVE Concat(_)
Concat(ps) == IF ps = <<>> THEN <<>> ELSE Head(ps) \o Concat(Tail(ps))

(***************************************************************************)
(* Horse names: normalizeHorseNameForMatch, formatHorseNameForDisplay      *)
(***************************************************************************)
lettersOnly(s) == SelectSeq(s, IsLetter)
stripped(s) == toLowerCase(SelectSeq(s, IsAlnum))

\* \b at the gap before index i (1..Len+1) of s
WordBoundary(s, i) ==
    LET before == i > 1 /\ IsWordChar(s[i - 1])
        after == i <= Len(s) /\ IsWordChar(s[i])
    IN  before # after

\* /\b(19|20)\d{2}\b/ matches at index i
FourDigitYearAt(s, i) ==
    /\ i >= 1 /\ i + 3 <= Len(s)
    /\ \/ (s[i] = "1" /\ s[i + 1] = "9")
       \/ (s[i] = "2" /\ s[i + 1] = "0")
    /\ IsDigit(s[i + 2]) /\ IsDigit(s[i + 3])
    /\ WordBoundary(s, i) /\ WordBoundary(s, i + 4)

\* /\b(\d{2})\b/ matches at index i
TwoDigitYearAt(s, i) ==
    /\ i >= 1 /\ i + 1 <= Len(s)
    /\ IsDigit(s[i]) /\ IsDigit(s[i + 1])
    /\ WordBoundary(s, i) /\ WordBoundary(s, i + 2)

\* the first (leftmost) index of 1..Len(s) that satisfies At, 0 when none
FirstIndex(s, At(_, _)) ==
    IF \E i \in 1..Len(s) : At(s, i)
    THEN CHOOSE i \in 1..Len(s) : At(s, i) /\ \A j \in 1..(i - 1) : ~At(s, j)
    ELSE 0

normalizeHorseNameForMatch(name) ==
    LET letters == toLowerCase(lettersOnly(name))
        four == FirstIndex(name, FourDigitYearAt)
        two == FirstIndex(name, TwoDigitYearAt)
        year == IF four > 0 THEN SubSeq(name, four + 2, four + 3)
                ELSE IF two > 0 THEN SubSeq(name, two, two + 1)
                ELSE <<>>
    IN  letters \o year

IsNotAlnum(c) == ~IsAlnum(c)
IsNotLetter(c) == ~IsLetter(c)
IsYearTens(c) == c \in {"2", "3", "4", "5", "6", "7", "8", "9"}

\* /^(20[2-9]\d)\s*(.+)$/
fourDigitYearStart(h) ==
    /\ Len(h) >= 5
    /\ h[1] = "2" /\ h[2] = "0" /\ IsYearTens(h[3]) /\ IsDigit(h[4])

\* the (.+) of a pattern whose greedy separator run is cut from rest: the
\* separator gives back its last character when it would swallow everything
RestAfter(rest, Sep(_)) ==
    IF LeadCount(rest, Sep, 1) < Len(rest) THEN StripLead(rest, Sep)
    ELSE Drop(rest, Len(rest) - 1)

\* /^([2-9]\d)[^a-zA-Z0-9]*(.+)$/
twoDigitYearStart(h) == Len(h) >= 3 /\ IsYearTens(h[1]) /\ IsDigit(h[2])

\* /^[^a-zA-Z0-9]*([2-9]\d)[^a-zA-Z0-9]*$/ on the rest after the lazy (.+?)
YearTail(rest) ==
    LET body == StripTrail(StripLead(rest, IsNotAlnum), IsNotAlnum)
    IN  Len(body) = 2 /\ IsYearTens(body[1]) /\ IsDigit(body[2])

\* the length of the lazy (.+?) of yearAtEnd, 0 when the pattern fails
yearAtEndSplit(h) ==
    IF \E n \in 1..Len(h) : YearTail(Drop(h, n))
    THEN CHOOSE n \in 1..Len(h) :
             YearTail(Drop(h, n)) /\ \A m \in 1..(n - 1) : ~YearTail(Drop(h, m))
    ELSE 0

formatHorseNameForDisplay(name) ==
    IF name = <<>> THEN <<>>
    ELSE
    LET h0 == StripLead(trim(name), IsNotAlnum)
        p1 == fourDigitYearStart(h0)
        h1 == IF p1 THEN RestAfter(Drop(h0, 4), IsSpace) ELSE h0
        y1 == IF p1 THEN SubSeq(h0, 3, 4) ELSE <<>>
        p2 == y1 = <<>> /\ twoDigitYearStart(h1)
        h2 == IF p2 THEN RestAfter(Drop(h1, 2), IsNotAlnum) ELSE h1
        y2 == IF p2 THEN SubSeq(h1, 1, 2) ELSE y1
        n3 == IF y2 = <<>> THEN yearAtEndSplit(h2) ELSE 0
        p3 == n3 > 2
        h3 == IF p3 THEN Take(h2, n3) ELSE h2
        y3 == IF p3 THEN LET body == StripTrail(StripLead(Drop(h2, n3), IsNotAlnum),
                                                IsNotAlnum)
                         IN  body
              ELSE y2
        clean == toUpperCase(trim(StripTrail(StripLead(h3, IsNotLetter), IsNotLetter)))
    IN  IF y3 # <<>> THEN clean \o <<" ">> \o y3 ELSE clean

(***************************************************************************)
(* The horse mapping: a JavaScript object, i.e. entries in insertion order *)
(***************************************************************************)
\* an entry of the mapping; hasAliases is FALSE when the aliases property is
\* undefined, displayName is <<>> when the name/displayName properties are
Entry(name, owner, country, isHistoric, aliases, hasAliases, displayName) ==
    [name |-> name, owner |-> owner, country |-> country, isHistoric |-> isHistoric,
     aliases |-> aliases, hasAliases |-> hasAliases, displayName |-> displayName]

BlankEntry(name) == Entry(name, "", "", FALSE, <<>>, TRUE, <<>>)

Keys(m) == [i \in 1..Len(m) |-> m[i].name]
HasKey(m, k) == \E i \in 1..Len(m) : m[i].name = k
KeyIndex(m, k) == CHOOSE i \in 1..Len(m) : m[i].name = k
Get(m, k) == m[KeyIndex(m, k)]
\* m[k] = e : in place when k is a key, appended otherwise
Put(m, k, e) ==
    IF HasKey(m, k) THEN [m EXCEPT ![KeyIndex(m, k)] = e] ELSE Append(m, e)
\* delete m[k]
Delete(m, k) == SelectSeq(m, LAMBDA e : e.name # k)

Contains(seq, x) == \E i \in 1..Len(seq) : seq[i] = x

\* Array.prototype.find over the keys: the first key that satisfies P, <<>> if none
FindKey(m, P(_)) ==
    IF \E i \in 1..Len(m) : P(m[i].name)
    THEN m[CHOOSE i \in 1..Len(m) : P(m[i].name) /\ \A j \in 1..(i - 1) : ~P(m[j].name)].name
    ELSE <<>>

(***************************************************************************)
(* resolveHorseAlias                                                       *)
(***************************************************************************)
\* the three comparisons of resolveHorseAlias between a stored name k and horseName
NameMatches(k, horseName) ==
    \/ toLowerCase(k) = trim(toLowerCase(horseName))
    \/ stripped(k) = stripped(horseName)
    \/ normalizeHorseNameForMatch(k) = normalizeHorseNameForMatch(horseName)

AliasMatches(e, horseName) ==
    e.hasAliases /\ \E i \in 1..Len(e.aliases) : NameMatches(e.aliases[i], horseName)

resolveHorseAlias(horseName, m) ==
    IF horseName = <<>> THEN horseName
    ELSE LET directMatch == FindKey(m, LAMBDA k : NameMatches(k, horseName))
         IN  IF directMatch # <<>> THEN directMatch
             ELSE IF \E i \in 1..Len(m) : AliasMatches(m[i], horseName)
                  THEN m[CHOOSE i \in 1..Len(m) :
                             /\ AliasMatches(m[i], horseName)
                             /\ \A j \in 1..(i - 1) : ~AliasMatches(m[j], horseName)].name
                  ELSE horseName

(***************************************************************************)
(* POST /api/horses/merge, /api/horses/unmerge, /api/horses/rename         *)
(***************************************************************************)
\* one turn of the merge loop that takes the absorbed owner and country
\* whatever the primary has
mergeOne_TakingOwner(m, primaryName, aliasName) ==
    LET ownedElsewhere ==
            \E i \in 1..Len(m) :
                /\ m[i].name # primaryName
                /\ m[i].hasAliases /\ Contains(m[i].aliases, aliasName)
    IN  IF aliasName = primaryName \/ ownedElsewhere THEN m
        ELSE
        LET prim == Get(m, primaryName)
            absorbed == HasKey(m, aliasName)
            old == IF absorbed THEN Get(m, aliasName) ELSE BlankEntry(aliasName)
            owner1 == IF absorbed /\ old.owner # "" THEN old.owner ELSE prim.owner
            country1 == IF absorbed /\ old.country # "" THEN old.country ELSE prim.country
            aliases1 == IF absorbed /\ old.hasAliases
                        THEN prim.aliases \o old.aliases ELSE prim.aliases
            aliases2 == IF Contains(aliases1, aliasName) THEN aliases1
                        ELSE Append(aliases1, aliasName)
            m1 == [m EXCEPT ![KeyIndex(m, primaryName)] =
                       [prim EXCEPT !.owner = owner1, !.country = country1,
                                    !.aliases = aliases2]]
        IN  IF absorbed THEN Delete(m1, aliasName) ELSE m1

\* one turn of the for loop of merge over aliasNames
mergeOne(m, primaryName, aliasName) ==
    LET ownedElsewhere ==
            \E i \in 1..Len(m) :
                /\ m[i].name # primaryName
                /\ m[i].hasAliases /\ Contains(m[i].aliases, aliasName)
    IN  IF aliasName = primaryName \/ ownedElsewhere THEN m
        ELSE
        LET prim == Get(m, primaryName)
            absorbed == HasKey(m, aliasName)
            old == IF absorbed THEN Get(m, aliasName) ELSE BlankEntry(aliasName)
            owner1 == IF absorbed /\ prim.owner = "" /\ old.owner # ""
                      THEN old.owner ELSE prim.owner
            country1 == IF absorbed /\ prim.country = "" /\ old.country # ""
                        THEN old.country ELSE prim.country
            aliases1 == IF absorbed /\ old.hasAliases
                        THEN prim.aliases \o old.aliases ELSE prim.aliases
            aliases2 == IF Contains(aliases1, aliasName) THEN aliases1
                        ELSE Append(aliases1, aliasName)
            m1 == [m EXCEPT ![KeyIndex(m, primaryName)] =
                       [prim EXCEPT !.owner = owner1, !.country = country1,
                                    !.aliases = aliases2]]
        IN  IF absorbed THEN Delete(m1, aliasName) ELSE m1

RECURSIVE mergeLoop(_, _, _)
mergeLoop(m, primaryName, aliasNames) ==
    IF aliasNames = <<>> THEN m
    ELSE mergeLoop(mergeOne(m, primaryName, Head(aliasNames)), primaryName,
                   Tail(aliasNames))

\* the mapping with the primary entry ensured and its aliases array initialised
mergeEnsurePrimary(m, primaryName) ==
    LET m0 == IF HasKey(m, primaryName) THEN m ELSE Append(m, BlankEntry(primaryName))
        prim == Get(m0, primaryName)
    IN  IF prim.hasAliases THEN m0
        ELSE [m0 EXCEPT ![KeyIndex(m0, primaryName)] =
                  [prim EXCEPT !.aliases = <<>>, !.hasAliases = TRUE]]

Failure(code) == [status |-> code, aliases |-> <<>>, savedRaces |-> <<>>,
                  skippedRaces |-> <<>>]
Success(aliases) == [status |-> 200, aliases |-> aliases, savedRaces |-> <<>>,
                     skippedRaces |-> <<>>]

RegistryRequest(op, a, b) ==
    [op |-> op, primaryName |-> a, names |-> b, races |-> <<>>]

MergeHorses(primaryName, aliasNames) ==
    /\ request' = RegistryRequest("merge", primaryName, aliasNames)
    /\ opCount' = opCount + 1
    /\ IF primaryName = <<>> \/ aliasNames = <<>>
       THEN /\ response' = Failure(400)
            /\ UNCHANGED horseMapping
       ELSE LET m == mergeLoop(mergeEnsurePrimary(horseMapping, primaryName),
                               primaryName, aliasNames)
            IN  /\ horseMapping' = m
                /\ response' = Success(Get(m, primaryName).aliases)
    /\ UNCHANGED <<redis, session, positionVars, classVars, timeVars, pc, inFlight>>

\* unmerge that registers the alias as an entry before it looks the alias up
UnmergeHorse_RegisteringFirst(primaryName, aliasName) ==
    /\ request' = RegistryRequest("unmerge", primaryName, <<aliasName>>)
    /\ opCount' = opCount + 1
    /\ IF primaryName = <<>> \/ aliasName = <<>>
       THEN /\ response' = Failure(400)
            /\ UNCHANGED horseMapping
       ELSE IF ~HasKey(horseMapping, primaryName)
       THEN /\ response' = Failure(404)
            /\ UNCHANGED horseMapping
       ELSE IF \/ ~Get(horseMapping, primaryName).hasAliases
               \/ ~Contains(Get(horseMapping, primaryName).aliases, aliasName)
       THEN /\ response' = Failure(404)
            /\ horseMapping' = Put(horseMapping, aliasName, BlankEntry(aliasName))
       ELSE LET prim == Get(horseMapping, primaryName)
                m1 == [horseMapping EXCEPT ![KeyIndex(horseMapping, primaryName)] =
                          [prim EXCEPT !.aliases =
                               SelectSeq(prim.aliases, LAMBDA a : a # aliasName)]]
                m2 == Put(m1, aliasName, BlankEntry(aliasName))
            IN  /\ horseMapping' = m2
                /\ response' = Success(Get(m2, primaryName).aliases)
    /\ UNCHANGED <<redis, session, positionVars, classVars, timeVars, pc, inFlight>>

UnmergeHorse(primaryName, aliasName) ==
    /\ request' = RegistryRequest("unmerge", primaryName, <<aliasName>>)
    /\ opCount' = opCount + 1
    /\ IF primaryName = <<>> \/ aliasName = <<>>
       THEN /\ response' = Failure(400)
            /\ UNCHANGED horseMapping
       ELSE IF ~HasKey(horseMapping, primaryName)
       THEN /\ response' = Failure(404)
            /\ UNCHANGED horseMapping
       ELSE IF \/ ~Get(horseMapping, primaryName).hasAliases
               \/ ~Contains(Get(horseMapping, primaryName).aliases, aliasName)
       THEN /\ response' = Failure(404)
            /\ UNCHANGED horseMapping
       ELSE LET prim == Get(horseMapping, primaryName)
                m1 == [horseMapping EXCEPT ![KeyIndex(horseMapping, primaryName)] =
                          [prim EXCEPT !.aliases =
                               SelectSeq(prim.aliases, LAMBDA a : a # aliasName)]]
                m2 == Put(m1, aliasName, BlankEntry(aliasName))
            IN  /\ horseMapping' = m2
                /\ response' = Success(Get(m2, primaryName).aliases)
    /\ UNCHANGED <<redis, session, positionVars, classVars, timeVars, pc, inFlight>>

\* the entry rename creates for newName, with the old names pushed as aliases
renamedEntry(m, oldName, newName) ==
    LET oldKey == FindKey(m, LAMBDA k : \/ toLowerCase(k) = toLowerCase(oldName)
                                        \/ stripped(k) = stripped(oldName))
        found == oldKey # <<>>
        oldData == IF found THEN Get(m, oldKey) ELSE BlankEntry(oldName)
        a0 == IF oldData.hasAliases THEN oldData.aliases ELSE <<>>
        a1 == IF found /\ ~Contains(a0, oldKey) THEN Append(a0, oldKey) ELSE a0
        a2 == IF oldName # oldKey /\ ~Contains(a1, oldName) THEN Append(a1, oldName)
              ELSE a1
    IN  Entry(newName, oldData.owner, oldData.country, oldData.isHistoric, a2, TRUE, <<>>)

RenameHorse(oldName, newName) ==
    /\ request' = RegistryRequest("rename", oldName, <<newName>>)
    /\ opCount' = opCount + 1
    /\ IF oldName = <<>> \/ newName = <<>>
       THEN /\ response' = Failure(400)
            /\ UNCHANGED horseMapping
       ELSE IF toLowerCase(oldName) = toLowerCase(newName)
       THEN /\ response' = Failure(400)
            /\ UNCHANGED horseMapping
       ELSE IF FindKey(horseMapping, LAMBDA k : toLowerCase(k) = toLowerCase(newName)) # <<>>
       THEN /\ response' = Failure(400)
            /\ UNCHANGED horseMapping
       ELSE LET oldKey == FindKey(horseMapping,
                              LAMBDA k : \/ toLowerCase(k) = toLowerCase(oldName)
                                         \/ stripped(k) = stripped(oldName))
                e == renamedEntry(horseMapping, oldName, newName)
                m1 == Put(horseMapping, newName, e)
                m2 == IF oldKey # <<>> THEN Delete(m1, oldKey) ELSE m1
            IN  /\ horseMapping' = m2
                /\ response' = Success(e.aliases)
    /\ UNCHANGED <<redis, session, positionVars, classVars, timeVars, pc, inFlight>>

(***************************************************************************)
(* The registry under merge / unmerge / rename requests                    *)
(***************************************************************************)
N2022Gin == <<"2", "0", "2", "2", " ", "G", "i", "n">>
NGIN22 == <<"G", "I", "N", " ", "2", "2">>
NSto == <<"S", "t", "o">>
N2022Sto == <<"2", "0", "2", "2", "S", "t", "o">>

\* the names the operator types into the registry requests
RegistryNames == {N2022Gin, NGIN22, NSto, N2022Sto}

\* bounds: requests per behaviour, alias names per merge request
MaxRequests == 3
MaxAliasNames == 2

NoSession == [exists |-> FALSE, horseData |-> <<>>, allHorseDetailData |-> <<>>]
NoRequest == [op |-> "none", primaryName |-> <<>>, names |-> <<>>, races |-> <<>>]

IdleCalls ==
    /\ digitsStr = <<>> /\ expectedCount = 0 /\ positions = <<>>
    /\ text = <<>> /\ raceType = ""
    /\ afterHorse = <<>> /\ finalTime = <<>>
    /\ pc = "served"
    /\ inFlight = <<>>

InitRegistry ==
    /\ redis \in BOOLEAN
    /\ horseMapping = <<>>
    /\ session = NoSession
    /\ request = NoRequest
    /\ response = Success(<<>>)
    /\ opCount = 0
    /\ IdleCalls

\* the aliasNames arrays of the merge requests
AliasNameLists == SeqsUpTo(RegistryNames, MaxAliasNames)

MergeRequest ==
    /\ opCount < MaxRequests
    /\ \E primaryName \in RegistryNames \cup {<<>>}, aliasNames \in AliasNameLists :
           MergeHorses(primaryName, aliasNames)

UnmergeRequest ==
    /\ opCount < MaxRequests
    /\ \E primaryName \in RegistryNames, aliasName \in RegistryNames \cup {<<>>} :
           UnmergeHorse(primaryName, aliasName)

RenameRequest ==
    /\ opCount < MaxRequests
    /\ \E oldName \in RegistryNames \cup {<<>>}, newName \in RegistryNames :
           RenameHorse(oldName, newName)

NextRegistry == MergeRequest \/ UnmergeRequest \/ RenameRequest

SpecRegistry == InitRegistry /\ [][NextRegistry]_vars

AliasSet(e) == IF e.hasAliases THEN {e.aliases[i] : i \in 1..Len(e.aliases)} ELSE {}

\* C1: no alias string is in the alias sets of two different canonical entries
\* (the registry starts empty, so it starts without a shared alias).
C1_AliasPartition ==
    \A i \in 1..Len(horseMapping), j \in 1..Len(horseMapping) :
        i # j => AliasSet(horseMapping[i]) \cap AliasSet(horseMapping[j]) = {}

\* spellings looked up in the registry: the registry names and variants of
\* them in letter case, spacing and year format
QuerySpellings ==
    RegistryNames \cup
    { <<"2", "0", "2", "2", " ", "g", "i", "n">>,
      <<"2", "0", "2", "2", "G", "i", "n">>,
      <<"g", "i", "n", " ", "2", "2">>,
      <<"G", "I", "N", "2", "2">>,
      <<"G", " ", "I", "N">>,
      <<"s", "t", "o">> }

\* what a spelling keeps when letter case, spacing/punctuation and the year
\* format are set aside: its letters and the two digits of a leading 4-digit
\* year or of a trailing 2-digit year
SpellingCore(x) ==
    LET a == SelectSeq(x, IsAlnum)
        n == Len(a)
        leading == n >= 4 /\ \A i \in 1..4 : IsDigit(a[i])
        trailing == n >= 2 /\ IsDigit(a[n - 1]) /\ IsDigit(a[n])
    IN  [letters |-> toLowerCase(lettersOnly(x)),
         year |-> IF leading THEN SubSeq(a, 3, 4)
                  ELSE IF trailing THEN SubSeq(a, n - 1, n)
                  ELSE <<>>]

SameSpelling(x, y) == SpellingCore(x) = SpellingCore(y)

\* the names an entry is known by: its canonical name and its aliases
KnownNames(e) == {e.name} \cup AliasSet(e)

\* x is a spelling of entry i and of no other entry
SpellsOnly(x, i) ==
    /\ \E y \in KnownNames(horseMapping[i]) : SameSpelling(x, y)
    /\ \A j \in 1..Len(horseMapping) :
           j # i => \A y \in KnownNames(horseMapping[j]) : ~SameSpelling(x, y)

\* C5: where A has been merged as an alias of P, resolving A or any spelling
\* that differs from A or P only by letter case, spacing/punctuation or year
\* format returns P (spellings that also spell another entry are left out).
C5_SpellingsResolveToPrimary ==
    \A i \in 1..Len(horseMapping) :
        AliasSet(horseMapping[i]) # {} =>
            \A x \in QuerySpellings :
                SpellsOnly(x, i) =>
                    resolveHorseAlias(x, horseMapping) = horseMapping[i].name

\* C10: formatting a canonical name for display and resolving the display
\* string returns that canonical name.
C10_DisplayNameResolvesBack ==
    \A i \in 1..Len(horseMapping) :
        resolveHorseAlias(formatHorseNameForDisplay(horseMapping[i].name), horseMapping)
            = horseMapping[i].name

(***************************************************************************)
(* The session store, checkDuplicateRace and POST /api/race-charts/save    *)
(***************************************************************************)
\* allHorseDetailData is an object: <<[key, entries]>> in insertion order
HistoryKeys(h) == [i \in 1..Len(h) |-> h[i].key]
HasHistory(h, k) == \E i \in 1..Len(h) : h[i].key = k
HistoryIndex(h, k) == CHOOSE i \in 1..Len(h) : h[i].key = k
EntriesOf(h, k) == IF HasHistory(h, k) THEN h[HistoryIndex(h, k)].entries ELSE <<>>

\* new Date(dateStr) as a day number; a string that is no date (the blank the
\* review form shows for 'Unknown Date') gives an Invalid Date
IsValidDate(d) == d \in {"01/05/2025", "02/10/2025", "1/5/2025", "2/10/2025"}

DateValue(d) ==
    CASE d = "01/05/2025" -> 5 [] d = "02/10/2025" -> 41
      [] d = "1/5/2025" -> 5 [] d = "2/10/2025" -> 41

\* the comparator (a, b) => new Date(b.date) - new Date(a.date) as the sort
\* takes it: the sign of the difference, and NaN (an Invalid Date on either
\* side) taken as 0
compareByDate(a, b) ==
    IF ~IsValidDate(a.date) \/ ~IsValidDate(b.date) THEN "zero"
    ELSE IF DateValue(b.date) < DateValue(a.date) THEN "neg"
    ELSE IF DateValue(b.date) = DateValue(a.date) THEN "zero"
    ELSE "pos"

\* Array.prototype.sort of the runtime on an array shorter than 64: the
\* leading run is counted (and reversed when strictly descending), then the
\* remaining elements are inserted by binary search
RECURSIVE runEnd(_, _, _)
runEnd(arr, isDescending, idx) ==
    IF idx = Len(arr) THEN idx
    ELSE LET order == compareByDate(arr[idx + 1], arr[idx])
         IN  IF isDescending
             THEN IF order # "neg" THEN idx ELSE runEnd(arr, isDescending, idx + 1)
             ELSE IF order = "neg" THEN idx ELSE runEnd(arr, isDescending, idx + 1)

RECURSIVE insertionPoint(_, _, _, _)
insertionPoint(arr, pivot, left, right) ==
    IF left >= right THEN left
    ELSE LET mid == left + ((right - left) \div 2)
         IN  IF compareByDate(pivot, arr[mid]) = "neg"
             THEN insertionPoint(arr, pivot, left, mid)
             ELSE insertionPoint(arr, pivot, mid + 1, right)

RECURSIVE binaryInsertionSort(_, _)
binaryInsertionSort(arr, sortedLen) ==
    IF sortedLen >= Len(arr) THEN arr
    ELSE LET idx == sortedLen + 1
             at == insertionPoint(arr, arr[idx], 1, idx)
         IN  binaryInsertionSort(Take(arr, at - 1) \o <<arr[idx]>>
                                     \o SubSeq(arr, at, idx - 1) \o Drop(arr, idx),
                                 idx)

sortByDateDesc(entries) ==
    IF Len(entries) < 2 THEN entries
    ELSE LET isDescending == compareByDate(entries[2], entries[1]) = "neg"
             run == runEnd(entries, isDescending, 2)
             made == IF isDescending
                     THEN [i \in 1..Len(entries) |->
                              IF i <= run THEN entries[run + 1 - i] ELSE entries[i]]
                     ELSE entries
         IN  binaryInsertionSort(made, run)

\* .replace(/\s*\([A-Z]{2,3}\)$/g, '') : a trailing country code such as (IRE)
stripCountryCode(s) ==
    LET n == Len(s)
        codeOf(k) == /\ n >= k + 2 /\ s[n] = ")" /\ s[n - k - 1] = "("
                     /\ \A i \in (n - k)..(n - 1) : s[i] \in UpperLetters
    IN  IF codeOf(2) THEN StripTrail(Take(s, n - 4), IsSpace)
        ELSE IF codeOf(3) THEN StripTrail(Take(s, n - 5), IsSpace)
        ELSE s

IsDuplicateEntry(e, raceDate, track) == e.isRace /\ e.date = raceDate /\ e.track = track

\* the guard with the key compared as stored, not upper-cased
checkDuplicateRace_KeyAsStored(horseName, raceDate, track, sessionData) ==
    /\ sessionData.exists
    /\ LET normalizedName == trim(stripCountryCode(toUpperCase(horseName)))
       IN  \E i \in 1..Len(sessionData.allHorseDetailData) :
               LET keyNormalized == sessionData.allHorseDetailData[i].key
               IN  /\ \/ keyNormalized = normalizedName
                      \/ includes(keyNormalized, normalizedName)
                      \/ includes(normalizedName, keyNormalized)
                   /\ \E j \in 1..Len(sessionData.allHorseDetailData[i].entries) :
                          IsDuplicateEntry(sessionData.allHorseDetailData[i].entries[j],
                                           raceDate, track)

\* sessionData is what getSession('arioneo-main-session') returns to the guard
checkDuplicateRace(horseName, raceDate, track, sessionData) ==
    /\ sessionData.exists
    /\ LET normalizedName == trim(stripCountryCode(toUpperCase(horseName)))
       IN  \E i \in 1..Len(sessionData.allHorseDetailData) :
               LET keyNormalized == toUpperCase(sessionData.allHorseDetailData[i].key)
               IN  /\ \/ keyNormalized = normalizedName
                      \/ includes(keyNormalized, normalizedName)
                      \/ includes(normalizedName, keyNormalized)
                   /\ \E j \in 1..Len(sessionData.allHorseDetailData[i].entries) :
                          IsDuplicateEntry(sessionData.allHorseDetailData[i].entries[j],
                                           raceDate, track)

RaceEntry(race, horseKey) ==
    [date |-> race.date, horse |-> horseKey, track |-> race.track, isRace |-> TRUE]

\* push the entry on the horse's array (created when missing) and sort it
addRaceEntry(h, horseKey, e) ==
    IF HasHistory(h, horseKey)
    THEN [h EXCEPT ![HistoryIndex(h, horseKey)].entries = sortByDateDesc(Append(@, e))]
    ELSE Append(h, [key |-> horseKey, entries |-> <<e>>])

\* "Ensure horse is in horse mapping" of the save loop
ensureSavedHorse(m, race, horseKey) ==
    LET k == toLowerCase(horseKey)
    IN  IF ~HasKey(m, k) /\ race.isNewHorse
        THEN Put(m, k, Entry(k, IF race.owner = "" THEN "-" ELSE race.owner,
                             IF race.country = "" THEN "-" ELSE race.country,
                             FALSE, <<>>, FALSE, horseKey))
        ELSE m

\* the session object the duplicate guard reads while the save loop holds the
\* local object: with Redis a fresh copy of what is stored; without it the
\* object in global.sessionStorage, which is the local object itself when a
\* session was stored before the request and is missing otherwise
guardView(stored, local) ==
    IF redis THEN stored
    ELSE IF stored.exists THEN local
    ELSE NoSession

\* st = [data: the local sessionData, mapping, saved, skipped]
saveOne(st, race, stored) ==
    LET h == st.data.allHorseDetailData
        matchingKey == IF \E i \in 1..Len(h) : toLowerCase(h[i].key) = toLowerCase(race.horseName)
                       THEN h[CHOOSE i \in 1..Len(h) :
                                  /\ toLowerCase(h[i].key) = toLowerCase(race.horseName)
                                  /\ \A j \in 1..(i - 1) :
                                         toLowerCase(h[j].key) # toLowerCase(race.horseName)].key
                       ELSE <<>>
        horseKey == IF matchingKey # <<>> THEN matchingKey ELSE race.horseName
        isDuplicate == checkDuplicateRace(horseKey, race.date, race.track,
                                          guardView(stored, st.data))
    IN  IF isDuplicate
        THEN [st EXCEPT !.skipped = Append(@, [horseName |-> horseKey, date |-> race.date,
                                               reason |-> "Duplicate entry"])]
        ELSE [st EXCEPT
                 !.data.allHorseDetailData = addRaceEntry(h, horseKey, RaceEntry(race, horseKey)),
                 !.saved = Append(@, [horseName |-> horseKey, date |-> race.date]),
                 !.mapping = ensureSavedHorse(@, race, horseKey)]

RECURSIVE saveLoop(_, _, _)
saveLoop(st, races, stored) ==
    IF races = <<>> THEN st
    ELSE saveLoop(saveOne(st, Head(races), stored), Tail(races), stored)

\* buildHorseSummaryFromDetailData: one row per horse with entries
Summary(key, entries) ==
    [horse |-> key, owner |-> "-", lastTrainingDate |-> sortByDateDesc(entries)[1].date]

buildHorseSummaryFromDetailData(h) ==
    LET withEntries == SelectSeq(h, LAMBDA x : x.entries # <<>>)
    IN  [i \in 1..Len(withEntries) |-> Summary(withEntries[i].key, withEntries[i].entries)]

HasRow(rows, k) == \E i \in 1..Len(rows) : toLowerCase(rows[i].horse) = k

\* existingHorseMap.set(key, row) on a Map kept as rows in insertion order
setRow(rows, u) ==
    LET k == toLowerCase(u.horse)
    IN  IF HasRow(rows, k)
        THEN [rows EXCEPT ![CHOOSE i \in 1..Len(rows) : toLowerCase(rows[i].horse) = k] = u]
        ELSE Append(rows, u)

\* existingHorseMap of the rows already stored
RECURSIVE existingHorseMap(_, _)
existingHorseMap(rows, acc) ==
    IF rows = <<>> THEN acc
    ELSE existingHorseMap(Tail(rows), setRow(acc, Head(rows)))

\* the update that replaces the row of every horse with history
setTouched_All(rows, updated, touched) ==
    IF updated = <<>> THEN rows
    ELSE LET replaced(i) == CHOOSE u \in {updated[j] : j \in 1..Len(updated)} :
                                toLowerCase(u.horse) = toLowerCase(rows[i].horse)
         IN  [i \in 1..Len(rows) |->
                 IF \E j \in 1..Len(updated) :
                        toLowerCase(updated[j].horse) = toLowerCase(rows[i].horse)
                 THEN replaced(i) ELSE rows[i]]

\* "Update only the horses that had races added"
RECURSIVE setTouched(_, _, _)
setTouched(rows, updated, touched) ==
    IF updated = <<>> THEN rows
    ELSE setTouched(IF toLowerCase(Head(updated).horse) \in touched
                    THEN setRow(rows, Head(updated)) ELSE rows,
                    Tail(updated), touched)

\* "Also add any new horses that weren't in the original data"
RECURSIVE addMissing(_, _)
addMissing(rows, updated) ==
    IF updated = <<>> THEN rows
    ELSE addMissing(IF ~HasRow(rows, toLowerCase(Head(updated).horse))
                    THEN setRow(rows, Head(updated)) ELSE rows,
                    Tail(updated))

updateSummaries(horseData, h, saved) ==
    LET touched == {toLowerCase(saved[i].horseName) : i \in 1..Len(saved)}
        updated == buildHorseSummaryFromDetailData(h)
    IN  addMissing(setTouched(existingHorseMap(horseData, <<>>), updated, touched),
                   updated)

SaveRequestBody(races) ==
    [op |-> "save", primaryName |-> <<>>, names |-> <<>>, races |-> races]

SaveRaces(races) ==
    /\ request' = SaveRequestBody(races)
    /\ opCount' = opCount + (IF races = <<>> THEN 1 ELSE Len(races))
    /\ IF races = <<>>
       THEN /\ response' = Failure(400)
            /\ UNCHANGED <<session, horseMapping>>
       ELSE \E st \in {saveLoop([data |-> IF session.exists THEN session
                                               ELSE [exists |-> TRUE, horseData |-> <<>>,
                                                     allHorseDetailData |-> <<>>],
                                     mapping |-> horseMapping,
                                     saved |-> <<>>, skipped |-> <<>>], races, session)} :
                /\ session' = [exists |-> TRUE,
                               horseData |-> updateSummaries(st.data.horseData,
                                                 st.data.allHorseDetailData, st.saved),
                               allHorseDetailData |-> st.data.allHorseDetailData]
                /\ horseMapping' = st.mapping
                /\ response' = [status |-> 200, aliases |-> <<>>,
                                savedRaces |-> st.saved, skippedRaces |-> st.skipped]
    /\ UNCHANGED <<redis, positionVars, classVars, timeVars, pc, inFlight>>

(***************************************************************************)
(* The store under save requests (and the merge that gives a horse an      *)
(* alias)                                                                  *)
(***************************************************************************)
N2022gin == <<"2", "0", "2", "2", " ", "g", "i", "n">>

\* the horse names, dates and tracks of the reviewed races
SaveNames == {N2022Gin, N2022gin, NGIN22}
SaveDateTracks == { <<"01/05/2025", "SAR">>, <<"02/10/2025", "SAR">>,
                    <<"01/05/2025", "GP">> }

\* the reviewed records: an existing horse selected, or (on the first date
\* and track) a new horse typed in without owner or country
ReviewedRaces ==
    { [horseName |-> n, date |-> dt[1], track |-> dt[2], isNewHorse |-> FALSE,
       owner |-> "", country |-> ""] : n \in SaveNames, dt \in SaveDateTracks }
    \cup
    { [horseName |-> n, date |-> "01/05/2025", track |-> "SAR", isNewHorse |-> TRUE,
       owner |-> "", country |-> ""] : n \in SaveNames }

\* bound: race records submitted (plus merge requests served) per behaviour
MaxSaveWork == 3

InitSave ==
    /\ redis \in BOOLEAN
    /\ horseMapping = <<>>
    /\ session = NoSession
    /\ request = NoRequest
    /\ response = Success(<<>>)
    /\ opCount = 0
    /\ IdleCalls

\* the request bodies: the arrays of n reviewed races, for n up to MaxSaveWork
Batches ==
    LET all == SeqsUpTo(ReviewedRaces, MaxSaveWork)
    IN  [n \in 0..MaxSaveWork |-> {b \in all : Len(b) = n}]

SaveRequest ==
    /\ opCount < MaxSaveWork
    /\ \E n \in 0..(MaxSaveWork - opCount) : \E races \in Batches[n] :
           SaveRaces(races)

SaveMergeRequest ==
    /\ opCount < MaxSaveWork
    /\ MergeHorses(N2022Gin, <<NGIN22>>)

NextSave == SaveRequest \/ SaveMergeRequest

SpecSave == InitSave /\ [][NextSave]_vars

\* the race entries of sessionData stored under key k for (date, track)
RaceCount(sessionData, k, date, track) ==
    LET es == EntriesOf(sessionData.allHorseDetailData, k)
    IN  Cardinality({i \in 1..Len(es) : IsDuplicateEntry(es[i], date, track)})

\* the key of the stored history that is the horse of a race record
StoredKeysOf(sessionData, horseName) ==
    {sessionData.allHorseDetailData[i].key : i \in
        {j \in 1..Len(sessionData.allHorseDetailData) :
            toLowerCase(sessionData.allHorseDetailData[j].key) = toLowerCase(horseName)}}

\* the records of the request being answered whose (horse, date, track) is stored
Resubmitted(races) ==
    {i \in 1..Len(races) :
        \E k \in StoredKeysOf(session, races[i].horseName) :
            RaceCount(session, k, races[i].date, races[i].track) >= 1}

\* C2: a save request that submits a race whose (horse, date, track) an
\* earlier save request committed leaves the stored history with the one
\* entry it had for that triple, and reports the record as skipped with
\* reason duplicate instead of saved.
C2_ResubmissionIsSkipped ==
    [][ (request'.op = "save" /\ opCount' > opCount) =>
          LET races == request'.races
          IN  /\ \A i \in Resubmitted(races) :
                    \A k \in StoredKeysOf(session, races[i].horseName) :
                        /\ RaceCount(session', k, races[i].date, races[i].track)
                               = RaceCount(session, k, races[i].date, races[i].track)
                        /\ \E n \in 1..Len(response'.skippedRaces) :
                               response'.skippedRaces[n] =
                                   [horseName |-> k, date |-> races[i].date,
                                    reason |-> "Duplicate entry"]
              /\ Len(response'.skippedRaces) >= Cardinality(Resubmitted(races))
              /\ Len(response'.savedRaces) + Len(response'.skippedRaces) = Len(races)
      ]_vars

\* a second request has resubmitted a committed race and was answered "skipped"
C2_Witness ==
    /\ request.op = "save" /\ Len(request.races) = 1
    /\ response.savedRaces = <<>>
    /\ Len(response.skippedRaces) = 1
    /\ session.exists
    /\ \E k \in StoredKeysOf(session, request.races[1].horseName) :
           RaceCount(session, k, request.races[1].date, request.races[1].track) = 1

\* C3: no horse's stored history holds two entries with the same date and track.
C3_NoTwoEntriesPerDateTrack ==
    \A i \in 1..Len(session.allHorseDetailData) :
        LET es == session.allHorseDetailData[i].entries
        IN  \A a \in 1..Len(es), b \in 1..Len(es) :
                (a # b) => ~(es[a].date = es[b].date /\ es[a].track = es[b].track)

\* C4: a record submitted under an alias spelling of a horse whose history has
\* a race for the same date and track is reported skipped and adds no entry
\* for that date and track to the history of any name of that horse.
C4_AliasSpellingIsDuplicate ==
    [][ (request'.op = "save" /\ opCount' > opCount) =>
          \A i \in 1..Len(request'.races), p \in 1..Len(horseMapping) :
              LET r == request'.races[i]
                  prim == horseMapping[p]
              IN  ( /\ r.horseName \in AliasSet(prim)
                    /\ RaceCount(session, prim.name, r.date, r.track) >= 1 ) =>
                      /\ response'.skippedRaces # <<>>
                      /\ \A k \in KnownNames(prim) :
                             RaceCount(session', k, r.date, r.track)
                                 = RaceCount(session, k, r.date, r.track)
      ]_vars

(***************************************************************************)
(* RaceChartParser.parsePositions                                          *)
(***************************************************************************)
\* the while loop of parsePositions from index i (1-based) on
RECURSIVE parsePositionsScan(_, _, _, _)
parsePositionsScan(str, expected, i, acc) ==
    IF i > Len(str) THEN acc
    ELSE IF str[i] = "1" /\ i + 1 <= Len(str) /\ str[i + 1] = "0"
         THEN parsePositionsScan(str, expected, i + 2, Append(acc, 10))
    ELSE IF /\ str[i] = "1" /\ i + 1 <= Len(str)
            /\ str[i + 1] \in {"1", "2"}
            /\ (expected = 0 \/ Len(str) > expected)
         THEN parsePositionsScan(str, expected, i + 2,
                                 Append(acc, 10 + DigitVal(str[i + 1])))
    ELSE parsePositionsScan(str, expected, i + 1, Append(acc, DigitVal(str[i])))

\* the parser before the expectedCount heuristic was added
parsePositions_IgnoringExpected(str, expected) ==
    parsePositionsScan(str, 0, 1, <<>>)

parsePositions(str, expected) ==
    IF expected > 0 /\ Len(str) = expected
    THEN [i \in 1..Len(str) |-> DigitVal(str[i])]
    ELSE parsePositionsScan(str, expected, 1, <<>>)

\* bounds of the digit strings drawn as inputs
MaxDigits == 5
MaxExpected == 6

RunDigits == {"0", "1", "2", "9"}

\* the documented examples (CLAUDE_CONTEXT, "Final parsePositions Logic")
DocumentedRuns ==
    { <<"1", "1", "1", "1">>,
      <<"1", "0", "9", "7", "6", "5">>,
      <<"1", "1", "9", "7", "6", "5">>,
      <<"1", "2", "8", "6", "5">> }

DigitRuns == SeqsUpTo(RunDigits, MaxDigits) \cup DocumentedRuns

IdleStore ==
    /\ redis = FALSE /\ horseMapping = <<>> /\ session = <<>>
    /\ request = <<>> /\ response = <<>> /\ opCount = 0
    /\ inFlight = <<>>
IdlePositions == digitsStr = <<>> /\ expectedCount = 0 /\ positions = <<>>
IdleClass == text = <<>> /\ raceType = ""
IdleTime == afterHorse = <<>> /\ finalTime = <<>>

InitPositions ==
    /\ digitsStr \in DigitRuns
    /\ expectedCount \in 0..MaxExpected
    /\ positions = <<>>
    /\ pc = "start"
    /\ IdleStore /\ IdleClass /\ IdleTime

ParsePositions ==
    /\ pc = "start"
    /\ positions' = parsePositions(digitsStr, expectedCount)
    /\ pc' = "done"
    /\ UNCHANGED <<digitsStr, expectedCount, storeVars, classVars, timeVars>>

NextPositions == ParsePositions

SpecPositions == InitPositions /\ [][NextPositions]_vars

\* the reading stated by the rule: singly when the length equals the expected
\* count, otherwise left to right with "10" always joined and "11"/"12" joined
\* only in a run longer than the expected count
RECURSIVE RuleReading(_, _)
RuleReading(run, longer) ==
    IF run = <<>> THEN <<>>
    ELSE IF Len(run) >= 2 /\ run[1] = "1" /\ run[2] = "0"
         THEN <<10>> \o RuleReading(Tail(Tail(run)), longer)
    ELSE IF Len(run) >= 2 /\ run[1] = "1" /\ run[2] = "1" /\ longer
         THEN <<11>> \o RuleReading(Tail(Tail(run)), longer)
    ELSE IF Len(run) >= 2 /\ run[1] = "1" /\ run[2] = "2" /\ longer
         THEN <<12>> \o RuleReading(Tail(Tail(run)), longer)
    ELSE <<DigitVal(run[1])>> \o RuleReading(Tail(run), longer)

SinglyRead(run) == [i \in 1..Len(run) |-> DigitVal(run[i])]

\* C6: parsePositions reads every digit singly when the run length equals the
\* expected count; otherwise it scans left to right, "10" is 10, "11"/"12" are
\* 11/12 only when the run is longer than the expected count, every other
\* digit is itself; the four documented examples come out as documented.
C6_PositionsFollowRule ==
    pc = "done" =>
        /\ Len(digitsStr) = expectedCount => positions = SinglyRead(digitsStr)
        /\ Len(digitsStr) # expectedCount =>
               positions = RuleReading(digitsStr, Len(digitsStr) > expectedCount)
        /\ digitsStr = <<"1", "1", "1", "1">> /\ expectedCount = 4
               => positions = <<1, 1, 1, 1>>
        /\ digitsStr = <<"1", "0", "9", "7", "6", "5">> /\ expectedCount = 5
               => positions = <<10, 9, 7, 6, 5>>
        /\ digitsStr = <<"1", "1", "9", "7", "6", "5">> /\ expectedCount = 5
               => positions = <<11, 9, 7, 6, 5>>
        /\ digitsStr = <<"1", "2", "8", "6", "5">> /\ expectedCount = 5
               => positions = <<1, 2, 8, 6, 5>>

\* a run with "11" longer than the expected count has been decoded
C6_Witness ==
    /\ pc = "done"
    /\ digitsStr = <<"1", "1", "9", "7", "6", "5">> /\ expectedCount = 5
    /\ positions = <<11, 9, 7, 6, 5>>

(***************************************************************************)
(* RaceChartParser.extractRaceMetadata: the race type                      *)
(*                                                                         *)
(* The document text is a sequence of words; "\n" is a line break.  The    *)
(* \s+ of the patterns spans spaces and line breaks alike, so adjacency of *)
(* words is taken on the text without its line breaks.                     *)
(***************************************************************************)
TrackNames == {"Saratoga"}
StakesEndings == {"Stakes", "Handicap"}
GradeTokens == {"I", "II", "III", "3yo"}
PriceTokens == {"$5000"}
AgeTokens == {"3yo"}
PlainWords == {"Allowance", "Optional", "Claiming", "Maiden", "Special", "Weight",
               "Grade", "Starter", "Price", "Purse", "I", "II", "III"} \cup TrackNames
                   \cup StakesEndings

\* the words made only of [A-Za-z'\s\-\.] characters
IsNameWord(w) == w \in PlainWords \/ w = "\n"

WordsOf(t) == SelectSeq(t, LAMBDA w : w # "\n")

\* the words ws occur consecutively in the text
HasPhrase(t, ws) == includes(WordsOf(t), ws)

\* a word of the set S directly follows the words ws
HasPhraseThen(t, ws, S) == \E w \in S : HasPhrase(t, Append(ws, w))

\* the capture of /Grade\s*([I1]{1,3}|\d+)/i turned into the grade digit
GradeOf(w) ==
    CASE w = "I" -> "G1" [] w = "II" -> "G2" [] w = "III" -> "G3" [] w = "3yo" -> "G3"

FirstGradeIndex(t) ==
    LET ws == WordsOf(t)
    IN  CHOOSE i \in 1..(Len(ws) - 1) :
            /\ ws[i] = "Grade" /\ ws[i + 1] \in GradeTokens
            /\ \A j \in 1..(i - 1) : ~(ws[j] = "Grade" /\ ws[j + 1] \in GradeTokens)

\* stakesNameMatch: a track name, a line break, then a name ending in S./Stakes/
\* H./Handicap/... ; the name needs a first word before the ending
stakesNameMatch(t) ==
    \E i \in 1..Len(t), j \in 1..Len(t), k \in 1..Len(t) :
        /\ i < j /\ j < k
        /\ t[i] \in TrackNames
        /\ j > i + 1
        /\ \A m \in (i + 1)..(j - 1) : t[m] = "\n"
        /\ t[j] \in PlainWords
        /\ \A m \in (j + 1)..(k - 1) : IsNameWord(t[m])
        /\ t[k] \in StakesEndings

\* /^\s*Stakes\b/m : Stakes is the first word of a line
StakesAtLineStart(t) ==
    \E i \in 1..Len(t) : t[i] = "Stakes" /\ (i = 1 \/ t[i - 1] = "\n")

HasOptionalClaiming(t) ==
    \/ HasPhrase(t, <<"Allowance", "Optional", "Claiming">>)
    \/ HasPhrase(t, <<"Optional", "Claiming">>)
HasMaidenSpecialWeight(t) == HasPhrase(t, <<"Maiden", "Special", "Weight">>)
HasGrade(t) == HasPhraseThen(t, <<"Grade">>, GradeTokens)
HasStakes(t) ==
    \/ stakesNameMatch(t)
    \/ HasPhraseThen(t, <<"Stakes">>, AgeTokens)
    \/ StakesAtLineStart(t)
HasMaidenClaiming(t) == HasPhrase(t, <<"Maiden", "Claiming">>)
HasStarterAllowance(t) == HasPhrase(t, <<"Starter", "Allowance">>)
HasAllowance(t) == HasPhrase(t, <<"Allowance">>)
HasClaimingPrice(t) == HasPhraseThen(t, <<"Claiming", "Price">>, PriceTokens)
HasClaimingDollar(t) == HasPhraseThen(t, <<"Claiming">>, PriceTokens)
HasHandicap(t) == HasPhrase(t, <<"Handicap">>)

\* the if / else-if chain with CLM tested on the bare word and before MCL
extractRaceType_ClaimingFirst(t) ==
    IF HasOptionalClaiming(t) THEN "AOC"
    ELSE IF HasMaidenSpecialWeight(t) THEN "MSW"
    ELSE IF HasGrade(t) THEN GradeOf(WordsOf(t)[FirstGradeIndex(t) + 1])
    ELSE IF HasStakes(t) THEN "STK"
    ELSE IF HasPhrase(t, <<"Claiming">>) THEN "CLM"
    ELSE IF HasMaidenClaiming(t) THEN "MCL"
    ELSE IF HasStarterAllowance(t) THEN "STR"
    ELSE IF HasAllowance(t) /\ ~HasClaimingPrice(t) THEN "ALW"
    ELSE IF HasHandicap(t) THEN "HCP"
    ELSE "UNK"

\* the if / else-if chain with starter allowance tested after allowance
extractRaceType_AllowanceFirst(t) ==
    IF HasOptionalClaiming(t) THEN "AOC"
    ELSE IF HasMaidenSpecialWeight(t) THEN "MSW"
    ELSE IF HasGrade(t) THEN GradeOf(WordsOf(t)[FirstGradeIndex(t) + 1])
    ELSE IF HasStakes(t) THEN "STK"
    ELSE IF HasMaidenClaiming(t) THEN "MCL"
    ELSE IF HasAllowance(t) /\ ~HasClaimingPrice(t) THEN "ALW"
    ELSE IF HasStarterAllowance(t) THEN "STR"
    ELSE IF HasClaimingPrice(t) \/ HasClaimingDollar(t) THEN "CLM"
    ELSE IF HasHandicap(t) THEN "HCP"
    ELSE "UNK"

extractRaceType(t) ==
    IF HasOptionalClaiming(t) THEN "AOC"
    ELSE IF HasMaidenSpecialWeight(t) THEN "MSW"
    ELSE IF HasGrade(t) THEN GradeOf(WordsOf(t)[FirstGradeIndex(t) + 1])
    ELSE IF HasStakes(t) THEN "STK"
    ELSE IF HasMaidenClaiming(t) THEN "MCL"
    ELSE IF HasStarterAllowance(t) THEN "STR"
    ELSE IF HasAllowance(t) /\ ~HasClaimingPrice(t) THEN "ALW"
    ELSE IF HasClaimingPrice(t) \/ HasClaimingDollar(t) THEN "CLM"
    ELSE IF HasHandicap(t) THEN "HCP"
    ELSE "UNK"

\* bound of the texts drawn as inputs: number of phrases per text
MaxPhrases == 3

Phrases ==
    { <<"Allowance", "Optional", "Claiming">>, <<"Optional", "Claiming">>,
      <<"Maiden", "Special", "Weight">>, <<"Maiden", "Claiming">>,
      <<"Grade", "II">>, <<"Grade">>, <<"3yo">>,
      <<"Saratoga", "\n">>, <<"Stakes">>, <<"Handicap">>, <<"\n">>,
      <<"Starter">>, <<"Allowance">>, <<"Maiden">>, <<"Claiming">>,
      <<"Claiming", "Price", "$5000">>, <<"$5000">>, <<"Purse">> }

Texts == {Concat(ps) : ps \in SeqsUpTo(Phrases, MaxPhrases)}

InitClass ==
    /\ text \in Texts
    /\ raceType = ""
    /\ pc = "start"
    /\ IdleStore /\ IdlePositions /\ IdleTime

ExtractRaceMetadata ==
    /\ pc = "start"
    /\ raceType' = extractRaceType(text)
    /\ pc' = "done"
    /\ UNCHANGED <<text, storeVars, positionVars, timeVars>>

NextClass == ExtractRaceMetadata

SpecClass == InitClass /\ [][NextClass]_vars

GradedClasses == {"G1", "G2", "G3"}

\* the class of the highest-priority pattern present, in the stated order;
\* allowancePresent says whether the allowance pattern counts as present
ClassByPriority(t, allowancePresent) ==
    IF HasOptionalClaiming(t) THEN {"AOC"}
    ELSE IF HasMaidenSpecialWeight(t) THEN {"MSW"}
    ELSE IF HasGrade(t) THEN GradedClasses
    ELSE IF HasStakes(t) THEN {"STK"}
    ELSE IF HasMaidenClaiming(t) THEN {"MCL"}
    ELSE IF HasStarterAllowance(t) THEN {"STR"}
    ELSE IF allowancePresent THEN {"ALW"}
    ELSE IF HasClaimingPrice(t) \/ HasClaimingDollar(t) THEN {"CLM"}
    ELSE IF HasHandicap(t) THEN {"HCP"}
    ELSE {"UNK"}

\* C7 as stated: the race class is the class of the highest-priority pattern
\* present (AOC > MSW > graded > STK > MCL > STR > ALW > CLM with price > HCP,
\* UNK when none), so allowance together with a claiming price is allowance.
C7_PriorityAsStated ==
    pc = "done" => raceType \in ClassByPriority(text, HasAllowance(text))

\* C7 amended: the same order, but the allowance pattern counts only in a text
\* without "Claiming Price $": with it (and nothing higher) the class is CLM,
\* while allowance with only the "Claiming $<digit>" form is ALW.
C7_PriorityWithPriceVeto ==
    pc = "done" =>
        /\ raceType \in ClassByPriority(text, HasAllowance(text) /\ ~HasClaimingPrice(text))
        /\ ( /\ HasAllowance(text) /\ HasClaimingPrice(text)
             /\ ~HasOptionalClaiming(text) /\ ~HasMaidenSpecialWeight(text)
             /\ ~HasGrade(text) /\ ~HasStakes(text) /\ ~HasMaidenClaiming(text)
             /\ ~HasStarterAllowance(text) ) => raceType = "CLM"

\* an allowance text with "Claiming Price $" has been classified CLM
C7_Witness ==
    /\ pc = "done"
    /\ text = <<"Allowance", "Claiming", "Price", "$5000">>
    /\ raceType = "CLM"

HasHigherThanMaidenClaiming(t) ==
    HasOptionalClaiming(t) \/ HasMaidenSpecialWeight(t) \/ HasGrade(t) \/ HasStakes(t)

\* C8 as stated: a text with "Maiden Claiming" and no "$" price pattern is
\* MCL whatever other patterns it contains.
C8_MaidenClaimingAlways ==
    ( /\ pc = "done" /\ HasMaidenClaiming(text)
      /\ ~HasClaimingPrice(text) /\ ~HasClaimingDollar(text) ) => raceType = "MCL"

\* C8 amended: such a text is never CLM, and it is MCL unless a pattern of
\* higher priority (optional claiming, maiden special weight, grade, stakes)
\* is present too.
C8_MaidenClaimingNeverClaiming ==
    ( /\ pc = "done" /\ HasMaidenClaiming(text)
      /\ ~HasClaimingPrice(text) /\ ~HasClaimingDollar(text) ) =>
        /\ raceType # "CLM"
        /\ ~HasHigherThanMaidenClaiming(text) => raceType = "MCL"

\* a maiden-claiming text without a price has been classified MCL
C8_Witness ==
    /\ pc = "done"
    /\ text = <<"Purse", "Maiden", "Claiming">>
    /\ raceType = "MCL"

(***************************************************************************)
(* RaceChartParser.parseHorseFromChart: the final time                     *)
(*                                                                         *)
(* afterHorse is the horse's row from the end of the horse name on.        *)
(***************************************************************************)
MinuteTimeLen == 7

\* /[12]:\d{2}\.\d{2}/ matches at index i of row
MinuteTimeAt(row, i) ==
    /\ i >= 1 /\ i + MinuteTimeLen - 1 <= Len(row)
    /\ row[i] \in {"1", "2"}
    /\ row[i + 1] = ":"
    /\ IsDigit(row[i + 2]) /\ IsDigit(row[i + 3])
    /\ row[i + 4] = "."
    /\ IsDigit(row[i + 5]) /\ IsDigit(row[i + 6])

\* String.prototype.match with the g flag: the matches left to right, each
\* search resuming after the end of the previous match
RECURSIVE matchAllMinuteTimes(_, _)
matchAllMinuteTimes(row, i) ==
    IF i > Len(row) THEN <<>>
    ELSE IF MinuteTimeAt(row, i)
         THEN <<SubSeq(row, i, i + MinuteTimeLen - 1)>>
                  \o matchAllMinuteTimes(row, i + MinuteTimeLen)
    ELSE matchAllMinuteTimes(row, i + 1)

allMinutesTimes(row) == matchAllMinuteTimes(row, 1)

NoTime == <<"-">>

\* the selection before the fix of "Wrong Final Time Selected": the last match
selectFinalTime_Last(row) ==
    LET all == allMinutesTimes(row)
    IN  IF Len(all) > 0 THEN all[Len(all)] ELSE NoTime

selectFinalTime(row) ==
    LET all == allMinutesTimes(row)
    IN  IF Len(all) > 0 THEN all[1] ELSE NoTime

\* afterHorse.lastIndexOf(t) as a 1-based index, 0 when t does not occur
lastIndexOf(s, t) ==
    IF includes(s, t)
    THEN CHOOSE i \in 1..(Len(s) + 1) :
             OccursAt(s, t, i) /\ \A j \in (i + 1)..(Len(s) + 1) : ~OccursAt(s, t, j)
    ELSE 0

\* afterHorse.substring(afterHorse.lastIndexOf(finalTime) + finalTime.length)
afterFinalTimeOf(row, ft) == Drop(row, lastIndexOf(row, ft) - 1 + Len(ft))

\* afterFinalTime.match(/^(\d+)/): the leading digit run, '' when none
digitsOnlyOf(aft) == Take(aft, LeadCount(aft, IsDigit, 1))

\* "Use digit length as heuristic"
expectedPositionsOf(digitsOnly) == IF Len(digitsOnly) <= 5 THEN Len(digitsOnly) ELSE 5

\* s.split(/\s+/) of a trimmed string
RECURSIVE splitTokens(_)
splitTokens(s) ==
    IF s = <<>> THEN <<>>
    ELSE LET n == LeadCount(s, LAMBDA c : ~IsSpace(c), 1)
         IN  <<Take(s, n)>> \o splitTokens(StripLead(Drop(s, n), IsSpace))

\* the loop that collects the tokens starting with a digit and stops at the
\* first other token once four are collected
RECURSIVE positionTokensOf(_, _)
positionTokensOf(tokens, acc) ==
    IF tokens = <<>> THEN acc
    ELSE IF Head(tokens) # <<>> /\ IsDigit(Head(tokens)[1])
         THEN positionTokensOf(Tail(tokens), Append(acc, Head(tokens)))
    ELSE IF Len(acc) >= 4 THEN acc
    ELSE positionTokensOf(Tail(tokens), acc)

extractPositionFromToken(token) ==
    LET digits == Take(token, LeadCount(token, IsDigit, 1))
    IN  IF digits = <<>> THEN 0
        ELSE IF digits = <<"1", "0">> THEN 10
        ELSE IF digits = <<"1", "1">> /\ Len(token) = 2 THEN 11
        ELSE IF digits = <<"1", "2">> /\ Len(token) = 2 THEN 12
        ELSE DigitVal(digits[1])

\* the positions of the row: Format A (the digit run after the final time),
\* else Format B (space-separated tokens, PP and St skipped)
chartPositions(row, ft) ==
    IF ft = NoTime THEN <<>>
    ELSE LET aft == afterFinalTimeOf(row, ft)
             digitsOnly == digitsOnlyOf(aft)
             formatA == parsePositions(digitsOnly, expectedPositionsOf(digitsOnly))
             tokens == positionTokensOf(splitTokens(trim(aft)), <<>>)
         IN  IF Len(formatA) < 4 /\ Len(tokens) >= 6
             THEN [i \in 1..(Len(tokens) - 2) |-> extractPositionFromToken(tokens[i + 2])]
             ELSE formatA

\* pos1_4, pos1_2, pos3_4, posFin of the returned object: given is FALSE for '-'
Call(p) == [given |-> TRUE, pos |-> p]
NoCall == [given |-> FALSE, pos |-> 0]

reportedCalls(ps) ==
    IF Len(ps) >= 5 THEN <<Call(ps[1]), Call(ps[2]), Call(ps[3]), Call(ps[5])>>
    ELSE IF Len(ps) = 4 THEN <<Call(ps[1]), Call(ps[2]), Call(ps[3]), Call(ps[4])>>
    ELSE IF Len(ps) >= 2 THEN <<NoCall, NoCall, NoCall, Call(ps[Len(ps)])>>
    ELSE <<NoCall, NoCall, NoCall, NoCall>>

\* bound of the rows drawn as inputs: number of pieces per row
MaxPieces == 4

RowPieces ==
    { <<"1", ":", "1", "1", ".", "0", "7">>,      \* a final time
      <<"2", ":", "0", "5", ".", "3", "3">>,      \* another final time
      <<"3", ":", "0", "5", ".", "1", "2">>,      \* minute digit outside [12]
      <<"1", ":", "1", "1", ".", "0">>,           \* a time cut short
      <<"2", "3", ".", "1", "2">>,                \* a fractional time
      <<"7", "4", "2", "2">>,                     \* finishing calls
      <<"g", "o", "n", " ">> }                    \* comment text

Rows == {Concat(ps) : ps \in SeqsUpTo(RowPieces, MaxPieces)}

InitTime ==
    /\ afterHorse \in Rows
    /\ finalTime = <<>>
    /\ pc = "start"
    /\ IdleStore /\ IdlePositions /\ IdleClass

ParseHorseFromChart ==
    /\ pc = "start"
    /\ finalTime' = selectFinalTime(afterHorse)
    /\ \E ft \in {selectFinalTime(afterHorse)} :
           /\ digitsStr' = (IF ft = NoTime THEN <<>>
                            ELSE digitsOnlyOf(afterFinalTimeOf(afterHorse, ft)))
           /\ positions' = chartPositions(afterHorse, ft)
    /\ expectedCount' = expectedPositionsOf(digitsStr')
    /\ pc' = "done"
    /\ UNCHANGED <<afterHorse, storeVars, classVars>>

NextTime == ParseHorseFromChart

SpecTime == InitTime /\ [][NextTime]_vars

TimeOccurrences(row) == {i \in 1..Len(row) : MinuteTimeAt(row, i)}
FirstOccurrence(row) ==
    CHOOSE i \in TimeOccurrences(row) : \A j \in TimeOccurrences(row) : i <= j

\* C9: in a row with two or more minute:second times the final time is the
\* one that occurs first (leftmost), never a later one.
C9_FirstTimeIsFinal ==
    (pc = "done" /\ Cardinality(TimeOccurrences(afterHorse)) >= 2) =>
        finalTime = SubSeq(afterHorse, FirstOccurrence(afterHorse),
                           FirstOccurrence(afterHorse) + MinuteTimeLen - 1)

\* a row that ends with the next horse's time has been parsed
C9_Witness ==
    /\ pc = "done"
    /\ afterHorse = <<"1", ":", "1", "1", ".", "0", "7">> \o <<"7", "4", "2", "2">>
                        \o <<"2", ":", "0", "5", ".", "3", "3">>
    /\ finalTime = <<"1", ":", "1", "1", ".", "0", "7">>

(***************************************************************************)
(* POST /api/upload/race-charts: the review queue of an upload batch       *)
(***************************************************************************)
\* confidences and Fuse scores in hundredths: bestConfidence >= 0.6, < 0.9,
\* and the Fuse threshold 0.4
MatchConfidence == 60
VerifiedConfidence == 90
FuseThreshold == 40

\* an element of existingHorses
HorseItem(name, displayName, aliases, owner, country) ==
    [name |-> name, displayName |-> displayName, aliases |-> aliases,
     owner |-> owner, country |-> country]

HasHorseKey(hm, k) == \E i \in 1..Len(hm) : hm[i].key = k

\* existingHorsesMap.set(key, item) on a Map kept in insertion order
setHorse(hm, k, item) ==
    IF HasHorseKey(hm, k)
    THEN [hm EXCEPT ![CHOOSE i \in 1..Len(hm) : hm[i].key = k] = [key |-> k, item |-> item]]
    ELSE Append(hm, [key |-> k, item |-> item])

\* "Add horses from mapping": the entries that have a name property
RECURSIVE addMappingHorses(_, _)
addMappingHorses(hm, m) ==
    IF m = <<>> THEN hm
    ELSE LET e == Head(m)
         IN  addMappingHorses(
                 IF e.displayName # <<>>
                 THEN setHorse(hm, toLowerCase(e.displayName),
                               HorseItem(e.displayName, e.displayName,
                                         IF e.hasAliases THEN e.aliases ELSE <<>>,
                                         e.owner, e.country))
                 ELSE hm,
                 Tail(m))

\* "Add horses from training data (session)": the keys not yet in the map
RECURSIVE addSessionHorses(_, _)
addSessionHorses(hm, h) ==
    IF h = <<>> THEN hm
    ELSE LET horseName == Head(h).key
         IN  addSessionHorses(
                 IF ~HasHorseKey(hm, toLowerCase(horseName))
                 THEN setHorse(hm, toLowerCase(horseName),
                               HorseItem(horseName, horseName, <<>>, "-", "-"))
                 ELSE hm,
                 Tail(h))

\* Array.from(existingHorsesMap.values())
existingHorsesOf(m, sessionData) ==
    LET hm == addSessionHorses(addMappingHorses(<<>>, m),
                               IF sessionData.exists THEN sessionData.allHorseDetailData
                               ELSE <<>>)
    IN  [i \in 1..Len(hm) |-> hm[i].item]

\* { match, confidence }: match is an index of existingHorses, 0 for null
MatchResult(match, confidence) == [match |-> match, confidence |-> confidence]

\* the index of the first element of 1..n that satisfies the set S, 0 if none
FirstOf(S) == IF S = {} THEN 0 ELSE CHOOSE i \in S : \A j \in S : i <= j

\* fuse.search(normalizedChartName): the library's answer is an input of the
\* document; fuse.score < 0 stands for no result, and a result's score is at
\* most the threshold
fuseSearch(existingHorses, fuse) ==
    IF fuse.score < 0 \/ fuse.score > FuseThreshold THEN MatchResult(0, 0)
    ELSE MatchResult(IF fuse.item <= Len(existingHorses) THEN fuse.item
                     ELSE Len(existingHorses),
                     100 - fuse.score)

fuzzyMatchHorse(chartHorseName, existingHorses, fuse) ==
    IF existingHorses = <<>> THEN MatchResult(0, 0)
    ELSE LET normalizedChartName == toUpperCase(trim(stripCountryCode(chartHorseName)))
             exactMatch == FirstOf({i \in 1..Len(existingHorses) :
                               \/ toUpperCase(existingHorses[i].name) = normalizedChartName
                               \/ toUpperCase(existingHorses[i].displayName)
                                      = normalizedChartName})
             aliasMatch == FirstOf({i \in 1..Len(existingHorses) :
                               \E a \in 1..Len(existingHorses[i].aliases) :
                                   toUpperCase(existingHorses[i].aliases[a])
                                       = normalizedChartName})
         IN  IF exactMatch # 0 THEN MatchResult(exactMatch, 100)
             ELSE IF aliasMatch # 0 THEN MatchResult(aliasMatch, 100)
             ELSE fuseSearch(existingHorses, fuse)

\* formatRaceDate: month/day/year of new Date(dateStr), the string itself
\* when it is 'Unknown Date' or no date
formatRaceDate(dateStr) ==
    CASE dateStr = "Saturday, January 5, 2025" -> "1/5/2025"
      [] dateStr = "Monday, February 10, 2025" -> "2/10/2025"
      [] OTHER -> dateStr

\* parseRaceChart(text, chartHorse): the metadata of the document with the
\* horse's name; the document says whether the horse's row was found
parseRaceChart(file, chartHorse) ==
    [raceDate |-> file.raceDate, track |-> file.track,
     raceType |-> extractRaceType(file.text), horseName |-> chartHorse]

NoData == [raceDate |-> "", track |-> "", raceType |-> "", horseName |-> <<>>]
NoHorse == HorseItem(<<>>, <<>>, <<>>, "", "")

\* the result object a file starts with
BlankResult(file) ==
    [fileName |-> file.fileName, success |-> FALSE, data |-> NoData, error |-> "",
     horsesFound |-> <<>>, needsVerification |-> FALSE, matchedHorse |-> NoHorse,
     matchConfidence |-> 0, isDuplicate |-> FALSE, selectedHorse |-> <<>>]

\* "Try to match each horse found with existing horses": best = [match,
\* confidence, chartHorse] with chartHorse an index of cleanHorses
RECURSIVE bestMatchLoop(_, _, _, _)
bestMatchLoop(cands, i, existingHorses, best) ==
    IF i > Len(cands) THEN best
    ELSE LET r == fuzzyMatchHorse(cands[i].name, existingHorses, cands[i].fuse)
         IN  bestMatchLoop(cands, i + 1, existingHorses,
                 IF r.confidence > best.confidence
                 THEN [match |-> r.match, confidence |-> r.confidence, chartHorse |-> i]
                 ELSE best)

\* the body of the loop over req.files, without the 0.9 test
processFile_NeverVerify(file, existingHorses, sessionData) ==
    LET cands == file.horses
        best == bestMatchLoop(cands, 1, existingHorses,
                              [match |-> 0, confidence |-> 0, chartHorse |-> 0])
        found == [BlankResult(file) EXCEPT
                     !.horsesFound = [i \in 1..Len(cands) |-> cands[i].name]]
    IN  IF file.throws
        THEN [BlankResult(file) EXCEPT !.error = "Parse error", !.needsVerification = TRUE]
        ELSE IF best.match # 0 /\ best.confidence >= MatchConfidence
        THEN IF cands[best.chartHorse].parsed
             THEN LET raceData == parseRaceChart(file, cands[best.chartHorse].name)
                  IN  [found EXCEPT
                          !.success = TRUE,
                          !.data = raceData,
                          !.matchedHorse = existingHorses[best.match],
                          !.matchConfidence = best.confidence,
                          !.needsVerification = FALSE,
                          !.isDuplicate = checkDuplicateRace(
                                              existingHorses[best.match].name,
                                              formatRaceDate(raceData.raceDate),
                                              raceData.track, sessionData),
                          !.selectedHorse = cands[best.chartHorse].name]
             ELSE [found EXCEPT !.error = "Could not parse race data"]
        ELSE IF cands # <<>>
        THEN [found EXCEPT
                 !.error = "No matching horse found in your system",
                 !.needsVerification = TRUE,
                 !.data = IF cands[1].parsed THEN parseRaceChart(file, cands[1].name)
                          ELSE NoData,
                 !.selectedHorse = cands[1].name]
        ELSE [found EXCEPT !.error = "No horses found in race chart"]

\* the body of the loop over req.files: the result of one file
processFile(file, existingHorses, sessionData) ==
    LET cands == file.horses
        best == bestMatchLoop(cands, 1, existingHorses,
                              [match |-> 0, confidence |-> 0, chartHorse |-> 0])
        found == [BlankResult(file) EXCEPT
                     !.horsesFound = [i \in 1..Len(cands) |-> cands[i].name]]
    IN  IF file.throws
        THEN [BlankResult(file) EXCEPT !.error = "Parse error", !.needsVerification = TRUE]
        ELSE IF best.match # 0 /\ best.confidence >= MatchConfidence
        THEN IF cands[best.chartHorse].parsed
             THEN LET raceData == parseRaceChart(file, cands[best.chartHorse].name)
                  IN  [found EXCEPT
                          !.success = TRUE,
                          !.data = raceData,
                          !.matchedHorse = existingHorses[best.match],
                          !.matchConfidence = best.confidence,
                          !.needsVerification = best.confidence < VerifiedConfidence,
                          !.isDuplicate = checkDuplicateRace(
                                              existingHorses[best.match].name,
                                              formatRaceDate(raceData.raceDate),
                                              raceData.track, sessionData),
                          !.selectedHorse = cands[best.chartHorse].name]
             ELSE [found EXCEPT !.error = "Could not parse race data"]
        ELSE IF cands # <<>>
        THEN [found EXCEPT
                 !.error = "No matching horse found in your system",
                 !.needsVerification = TRUE,
                 !.data = IF cands[1].parsed THEN parseRaceChart(file, cands[1].name)
                          ELSE NoData,
                 !.selectedHorse = cands[1].name]
        ELSE [found EXCEPT !.error = "No horses found in race chart"]

\* results.push(result) for each file, in the order of req.files
RECURSIVE uploadLoop(_, _, _, _)
uploadLoop(files, existingHorses, sessionData, results) ==
    IF files = <<>> THEN results
    ELSE uploadLoop(Tail(files), existingHorses, sessionData,
                    Append(results, processFile(Head(files), existingHorses, sessionData)))

\* results.filter(P).length
CountOf(results, P(_)) == Cardinality({i \in 1..Len(results) : P(results[i])})

IsReady(r) == r.success /\ ~r.needsVerification
IsFlagged(r) == r.needsVerification
IsDuplicateResult(r) == r.isDuplicate

\* the store as the handler leaves it, with an upload that commits its
\* ready results at once
uploadStore_Committing(m, sessionData, results) ==
    LET ready == SelectSeq(results, LAMBDA r : r.success /\ ~r.needsVerification
                                                /\ ~r.isDuplicate)
        races == [i \in 1..Len(ready) |->
                     [horseName |-> ready[i].matchedHorse.name,
                      date |-> formatRaceDate(ready[i].data.raceDate),
                      track |-> ready[i].data.track, isNewHorse |-> FALSE,
                      owner |-> "", country |-> ""]]
        st == saveLoop([data |-> IF sessionData.exists THEN sessionData
                                 ELSE [exists |-> TRUE, horseData |-> <<>>,
                                       allHorseDetailData |-> <<>>],
                        mapping |-> m, saved |-> <<>>, skipped |-> <<>>],
                       races, sessionData)
    IN  IF ready = <<>> THEN [mapping |-> m, session |-> sessionData]
        ELSE [mapping |-> st.mapping, session |-> st.data]

\* the store as the handler leaves it: getHorseMapping, getSession and
\* checkDuplicateRace only read, and the handler calls neither saveSession
\* nor saveHorseMapping
uploadStore(m, sessionData, results) ==
    [mapping |-> m, session |-> sessionData]

UploadRequestBody(files) ==
    [op |-> "upload", primaryName |-> <<>>, names |-> <<>>, races |-> <<>>,
     files |-> files]

\* the handler: it reads the mapping and the session and answers
UploadRaceCharts(files) ==
    /\ request' = UploadRequestBody(files)
    /\ opCount' = opCount + (IF files = <<>> THEN 1 ELSE Len(files))
    /\ IF files = <<>>
       THEN /\ response' = [status |-> 400, results |-> <<>>]
            /\ UNCHANGED <<horseMapping, session>>
       ELSE \E results \in {uploadLoop(files, existingHorsesOf(horseMapping, session),
                                       session, <<>>)} :
               /\ response' = [status |-> 200,
                               results |-> results,
                               totalProcessed |-> Len(results),
                               successfulMatches |-> CountOf(results, IsReady),
                               needsVerification |-> CountOf(results, IsFlagged),
                               duplicates |-> CountOf(results, IsDuplicateResult)]
               /\ horseMapping' = uploadStore(horseMapping, session, results).mapping
               /\ session' = uploadStore(horseMapping, session, results).session
    /\ UNCHANGED <<redis, positionVars, classVars, timeVars, pc, inFlight>>

(***************************************************************************)
(* The store under upload batches, saves of reviewed races and merges      *)
(***************************************************************************)
UGin == <<"G", "i", "n">>
UGIN == <<"G", "I", "N">>
UStoIRE == <<"S", "t", "o", " ", "(", "I", "R", "E", ")">>
USto == <<"S", "t", "o">>

\* what Fuse answers for a chart name that has no exact match: nothing, or
\* the first horse with a score
NoFuse == [score |-> 0 - 1, item |-> 1]
Fuse(score) == [score |-> score, item |-> 1]

Candidate(name, parsed, fuse) == [name |-> name, parsed |-> parsed, fuse |-> fuse]

Document(fileName, horses, raceDate, track, words) ==
    [fileName |-> fileName, throws |-> FALSE, horses |-> horses,
     raceDate |-> raceDate, track |-> track, text |-> words]

Jan5 == "Saturday, January 5, 2025"

\* the uploaded documents: one that cannot be read, one without horses, and
\* charts with one or two horses, complete or with a field left unresolved
Documents ==
    { [Document("bad.pdf", <<>>, "Unknown Date", "UNK", <<>>) EXCEPT !.throws = TRUE],
      Document("none.pdf", <<>>, Jan5, "SAR", <<"Allowance">>),
      Document("a.pdf", <<Candidate(UGin, TRUE, NoFuse)>>, Jan5, "SAR", <<"Allowance">>),
      Document("b.pdf", <<Candidate(UGin, TRUE, Fuse(10))>>, Jan5, "SAR", <<"Allowance">>),
      Document("c.pdf", <<Candidate(UGin, TRUE, Fuse(11))>>, Jan5, "SAR", <<"Allowance">>),
      Document("d.pdf", <<Candidate(UGin, TRUE, Fuse(40))>>, Jan5, "SAR", <<"Allowance">>),
      Document("e.pdf", <<Candidate(UGin, FALSE, Fuse(11))>>, Jan5, "SAR", <<"Allowance">>),
      Document("f.pdf", <<Candidate(UGin, TRUE, NoFuse)>>, Jan5, "UNK", <<"Allowance">>),
      Document("g.pdf", <<Candidate(UGin, TRUE, NoFuse)>>, "Unknown Date", "SAR",
               <<"Allowance">>),
      Document("h.pdf", <<Candidate(UGin, TRUE, Fuse(10))>>, Jan5, "SAR", <<"Purse">>),
      Document("i.pdf", <<Candidate(UGin, TRUE, Fuse(40)),
                          Candidate(UStoIRE, TRUE, Fuse(10))>>, Jan5, "SAR", <<"Allowance">>),
      Document("j.pdf", <<Candidate(UGin, FALSE, NoFuse),
                          Candidate(UStoIRE, TRUE, NoFuse)>>, Jan5, "SAR", <<"Allowance">>) }

\* bounds: files per upload batch; files processed, races saved and merges
\* served per behaviour
MaxFiles == 2
MaxUploadWork == 3

\* the req.files arrays, by length
FileBatches ==
    LET all == SeqsUpTo(Documents, MaxFiles)
    IN  [n \in 0..MaxFiles |-> {b \in all : Len(b) = n}]

\* the reviewed races saved between uploads
UploadReviewedRaces ==
    { [horseName |-> UGIN, date |-> "1/5/2025", track |-> "SAR", isNewHorse |-> new,
       owner |-> "", country |-> ""] : new \in BOOLEAN }
    \cup
    { [horseName |-> USto, date |-> "2/10/2025", track |-> "SAR", isNewHorse |-> FALSE,
       owner |-> "", country |-> ""] }

InitUpload ==
    /\ redis \in BOOLEAN
    /\ horseMapping = <<>>
    /\ session = NoSession
    /\ request = NoRequest
    /\ response = Success(<<>>)
    /\ opCount = 0
    /\ IdleCalls

UploadRequest ==
    /\ opCount < MaxUploadWork
    /\ \E n \in 0..MaxFiles :
           /\ n <= MaxUploadWork - opCount
           /\ \E files \in FileBatches[n] : UploadRaceCharts(files)

UploadSaveRequest ==
    /\ opCount < MaxUploadWork
    /\ \E race \in UploadReviewedRaces : SaveRaces(<<race>>)

UploadMergeRequest ==
    /\ opCount < MaxUploadWork
    /\ MergeHorses(toLowerCase(UGIN), <<USto>>)

NextUpload == UploadRequest \/ UploadSaveRequest \/ UploadMergeRequest

SpecUpload == InitUpload /\ [][NextUpload]_vars

\* C11: an upload request leaves the stored history and the registry as they
\* were, and the stored history changes only in the step of a save request.
C11_UploadCommitsNothing ==
    [][ /\ (request'.op = "upload") =>
               (session' = session /\ horseMapping' = horseMapping)
        /\ (session' # session) => request'.op = "save"
      ]_vars

\* a batch with a ready result was processed against a stored history
C11_Witness ==
    /\ request.op = "upload"
    /\ response.status = 200
    /\ response.successfulMatches >= 1
    /\ response.duplicates = 0
    /\ session.exists

(***************************************************************************)
(* The summary rows under save requests, starting with or without a        *)
(* session that came from a training spreadsheet                           *)
(***************************************************************************)
\* a training entry of the spreadsheet
WorkEntry(horse, date) == [date |-> date, horse |-> horse, track |-> "", isRace |-> FALSE]

\* the row generateHorseSummary makes for a horse (owner from the mapping,
\* blank when the horse is not mapped)
SheetRow(horse, date) == [horse |-> horse, owner |-> "", lastTrainingDate |-> date]

\* the session stored after a spreadsheet upload with two horses
SheetSession ==
    [exists |-> TRUE,
     horseData |-> << SheetRow(NGIN22, "01/05/2025"), SheetRow(NSto, "02/10/2025") >>,
     allHorseDetailData |->
         << [key |-> NGIN22, entries |-> <<WorkEntry(NGIN22, "01/05/2025")>>],
            [key |-> NSto, entries |-> <<WorkEntry(NSto, "02/10/2025")>>] >>]

SummaryRaces ==
    { [horseName |-> n, date |-> d, track |-> "SAR", isNewHorse |-> FALSE,
       owner |-> "", country |-> ""] :
          n \in {NGIN22, NSto, N2022Gin}, d \in {"01/05/2025", "02/10/2025"} }

\* bounds: races per save request, races saved per behaviour
MaxSummaryRaces == 2
MaxSummaryWork == 3

SummaryBatches ==
    LET all == SeqsUpTo(SummaryRaces, MaxSummaryRaces)
    IN  [n \in 0..MaxSummaryRaces |-> {b \in all : Len(b) = n}]

InitSummary ==
    /\ redis \in BOOLEAN
    /\ horseMapping = <<>>
    /\ session \in {NoSession, SheetSession}
    /\ request = NoRequest
    /\ response = Success(<<>>)
    /\ opCount = 0
    /\ IdleCalls

SummarySaveRequest ==
    /\ opCount < MaxSummaryWork
    /\ \E n \in 0..MaxSummaryRaces :
           /\ n <= MaxSummaryWork - opCount
           /\ \E races \in SummaryBatches[n] : SaveRaces(races)

NextSummary == SummarySaveRequest

SpecSummary == InitSummary /\ [][NextSummary]_vars

\* the lower-cased names of the horses that had a race saved by the request
TouchedBy(resp) == {toLowerCase(resp.savedRaces[i].horseName) :
                        i \in 1..Len(resp.savedRaces)}

RowNames(rows) == {toLowerCase(rows[i].horse) : i \in 1..Len(rows)}

BestOf(file) ==
    bestMatchLoop(file.horses, 1, existingHorsesOf(horseMapping, session),
                  [match |-> 0, confidence |-> 0, chartHorse |-> 0])

MatchedItem(file) == existingHorsesOf(horseMapping, session)[BestOf(file).match]

UploadAnswered == request.op = "upload" /\ response.status = 200

\* C13 as stated: for every document result, a best-match confidence of at
\* least 0.9 gives an accepted result without needsVerification, one in
\* [0.6, 0.9) gives needsVerification with the matched horse, and one below
\* 0.6 gives needsVerification with no matched horse.
C13_ConfidenceBands ==
    UploadAnswered =>
        \A i \in 1..Len(request.files) :
            LET f == request.files[i]
                r == response.results[i]
                c == IF f.throws THEN 0 ELSE BestOf(f).confidence
            IN  /\ c >= VerifiedConfidence => (r.success /\ ~r.needsVerification)
                /\ (c >= MatchConfidence /\ c < VerifiedConfidence) =>
                       (r.needsVerification /\ r.matchedHorse = MatchedItem(f))
                /\ c < MatchConfidence =>
                       (r.needsVerification /\ r.matchedHorse = NoHorse)

\* C13 amended: the bands hold for the documents whose best candidate's row
\* was parsed (0.6 and above) or that have a candidate at all (below 0.6); a
\* document without candidates, or whose best-matched candidate has no parsed
\* row, gets an error result that is neither accepted nor flagged.
C13_ConfidenceBandsOfParsedRows ==
    UploadAnswered =>
        \A i \in 1..Len(request.files) :
            LET f == request.files[i]
                r == response.results[i]
                b == BestOf(f)
            IN  IF f.throws
                THEN r.needsVerification /\ ~r.success /\ r.matchedHorse = NoHorse
                ELSE IF b.confidence >= MatchConfidence /\ f.horses[b.chartHorse].parsed
                THEN /\ r.success
                     /\ r.matchedHorse = MatchedItem(f)
                     /\ r.needsVerification = (b.confidence < VerifiedConfidence)
                ELSE IF b.confidence < MatchConfidence /\ f.horses # <<>>
                THEN r.needsVerification /\ ~r.success /\ r.matchedHorse = NoHorse
                ELSE /\ ~r.success /\ ~r.needsVerification
                     /\ r.error # "" /\ r.matchedHorse = NoHorse

\* a fuzzy match of confidence 0.89 was flagged with its horse pre-selected,
\* next to one of 0.9 that was accepted
C13_Witness ==
    /\ UploadAnswered
    /\ Len(request.files) = 2
    /\ BestOf(request.files[1]).confidence = 89
    /\ response.results[1].needsVerification
    /\ response.results[1].matchedHorse # NoHorse
    /\ BestOf(request.files[2]).confidence = VerifiedConfidence
    /\ response.results[2].success /\ ~response.results[2].needsVerification

\* the metadata of a result holds a sentinel value
HasSentinel(data) ==
    data # NoData /\ (data.raceDate = "Unknown Date" \/ data.track = "UNK"
                      \/ data.raceType = "UNK")

\* C14: a document result whose metadata holds a sentinel value (date
\* 'Unknown Date', track 'UNK' or race class 'UNK') is flagged
\* needsVerification and is not counted as ready to save, whatever the
\* confidence of the match.
C14_SentinelsNeedVerification ==
    UploadAnswered =>
        /\ \A i \in 1..Len(response.results) :
               HasSentinel(response.results[i].data) => response.results[i].needsVerification
        /\ response.successfulMatches
               <= Cardinality({i \in 1..Len(response.results) :
                                   ~HasSentinel(response.results[i].data)})

IsErrorResult(r) == r.error # "" /\ ~r.success

\* C15: the response holds one result per uploaded file, in the order of the
\* files; each file's result is the result the file gets when processed
\* alone against the same store; and the aggregate counts report the ready,
\* flagged, duplicate and error documents, so that every document (an error
\* document too) is in one of the reported counts.
C15_PerDocumentResultsAndCounts ==
    UploadAnswered =>
        LET files == request.files
            results == response.results
        IN  /\ Len(results) = Len(files)
            /\ response.totalProcessed = Len(files)
            /\ \A i \in 1..Len(files) :
                   /\ results[i].fileName = files[i].fileName
                   /\ results[i] = uploadLoop(<<files[i]>>,
                                              existingHorsesOf(horseMapping, session),
                                              session, <<>>)[1]
            /\ response.successfulMatches = CountOf(results, IsReady)
            /\ response.needsVerification = CountOf(results, IsFlagged)
            /\ response.duplicates = CountOf(results, IsDuplicateResult)
            /\ \A i \in 1..Len(results) :
                   IsErrorResult(results[i]) =>
                       \/ IsFlagged(results[i])
                       \/ IsDuplicateResult(results[i])


(***************************************************************************)
(* The registry with owners: entries added through POST /api/horses, then  *)
(* merge / unmerge / rename requests                                       *)
(***************************************************************************)
\* the entry POST /api/horses stores: owner, country and isHistoric of the
\* request, no aliases and no name property
addedEntry(name, owner, country, isHistoric) ==
    Entry(name, owner, country, isHistoric, <<>>, FALSE, <<>>)

\* registries the owner has filled in through POST /api/horses, the last one
\* followed by a merge of '2022Sto' into 'Sto'
AddedRegistries ==
    { <<>>,
      << addedEntry(NSto, "Ann", "US", FALSE), addedEntry(NGIN22, "Bob", "", TRUE) >>,
      << addedEntry(NSto, "", "IRE", FALSE), addedEntry(NGIN22, "Ann", "US", FALSE),
         addedEntry(N2022Gin, "Bob", "FR", TRUE) >>,
      mergeLoop(mergeEnsurePrimary(
                   << addedEntry(NSto, "Ann", "", TRUE),
                      addedEntry(N2022Sto, "", "FR", FALSE),
                      addedEntry(NGIN22, "Bob", "US", FALSE) >>, NSto),
                NSto, <<N2022Sto>>) }

\* bound: requests per behaviour
MaxOwnerRequests == 2

InitOwners ==
    /\ redis \in BOOLEAN
    /\ horseMapping \in AddedRegistries
    /\ session = NoSession
    /\ request = NoRequest
    /\ response = Success(<<>>)
    /\ opCount = 0
    /\ IdleCalls

OwnerMergeRequest ==
    /\ opCount < MaxOwnerRequests
    /\ \E primaryName \in RegistryNames \cup {<<>>}, aliasNames \in AliasNameLists :
           MergeHorses(primaryName, aliasNames)

OwnerUnmergeRequest ==
    /\ opCount < MaxOwnerRequests
    /\ \E primaryName \in RegistryNames, aliasName \in RegistryNames \cup {<<>>} :
           UnmergeHorse(primaryName, aliasName)

OwnerRenameRequest ==
    /\ opCount < MaxOwnerRequests
    /\ \E oldName \in RegistryNames \cup {<<>>}, newName \in RegistryNames :
           RenameHorse(oldName, newName)

NextOwners == OwnerMergeRequest \/ OwnerUnmergeRequest \/ OwnerRenameRequest

SpecOwners == InitOwners /\ [][NextOwners]_vars

\* n is in the aliases of an entry of m other than p
OwnedElsewhere(m, p, n) ==
    \E i \in 1..Len(m) : m[i].name # p /\ n \in AliasSet(m[i])

\* the entry of p in m, the blank entry when p has none
EntryOrBlank(m, p) == IF HasKey(m, p) THEN Get(m, p) ELSE BlankEntry(p)

\* the entries of m that have no entry of the same name in m2
DeletedEntries(m, m2) == {m[i] : i \in {j \in 1..Len(m) : ~HasKey(m2, m[j].name)}}

NamesOf(names) == {names[i] : i \in 1..Len(names)}

\* the owner clause of a merge of names into p, from registry m to m2, for
\* one field f: a primary that had a value keeps it, a blank one holds blank
\* or the value of an entry the request deleted, and is not left blank when
\* the absorbed entry n had a value
TakesWhereBlank(m, m2, p, n, own, new, theirs) ==
    /\ own # "" => new = own
    /\ own = "" => new = "" \/ \E e \in DeletedEntries(m, m2) :
                                   new = (IF theirs = "owner" THEN e.owner ELSE e.country)
    /\ (own = "" /\ (IF theirs = "owner" THEN Get(m, n).owner ELSE Get(m, n).country) # "")
           => new # ""

\* what the claim states of one absorbed name n
AbsorbedInto(m, m2, p, n) ==
    /\ ~HasKey(m2, n)
    /\ HasKey(m2, p)
    /\ n \in AliasSet(Get(m2, p))
    /\ AliasSet(Get(m, n)) \subseteq AliasSet(Get(m2, p))
    /\ TakesWhereBlank(m, m2, p, n, EntryOrBlank(m, p).owner, Get(m2, p).owner, "owner")
    /\ TakesWhereBlank(m, m2, p, n, EntryOrBlank(m, p).country, Get(m2, p).country,
                       "country")

MergeAnswered == request'.op = "merge" /\ response'.status = 200

\* C16 as stated: after Merge(primary, names), every name that was a canonical
\* entry and is not owned as an alias by another entry is absorbed (entry gone,
\* name and former aliases in primary's aliases, owner and country taken only
\* where primary's were blank), and a name in another entry's alias set is
\* not added to primary.
C16_MergeAbsorbsEveryName ==
    [][MergeAnswered =>
        LET p == request'.primaryName
            names == NamesOf(request'.names)
        IN  /\ \A n \in names :
                   (HasKey(horseMapping, n) /\ ~OwnedElsewhere(horseMapping, p, n))
                       => AbsorbedInto(horseMapping, horseMapping', p, n)
            /\ \A n \in names :
                   (OwnedElsewhere(horseMapping, p, n)
                        /\ n \notin AliasSet(EntryOrBlank(horseMapping, p)))
                       => n \notin AliasSet(Get(horseMapping', p))]_vars

\* C16, amended: the same of every name other than primary itself, and a name
\* in another entry's alias set is added to primary only as a former alias of
\* an entry the request absorbed.
C16_MergeAbsorbsOtherNames ==
    [][MergeAnswered =>
        LET p == request'.primaryName
            names == NamesOf(request'.names)
        IN  /\ \A n \in names \ {p} :
                   (HasKey(horseMapping, n) /\ ~OwnedElsewhere(horseMapping, p, n))
                       => AbsorbedInto(horseMapping, horseMapping', p, n)
            /\ \A n \in names \ {p} :
                   (/\ OwnedElsewhere(horseMapping, p, n)
                    /\ n \notin AliasSet(EntryOrBlank(horseMapping, p))
                    /\ \A e \in DeletedEntries(horseMapping, horseMapping') :
                           n \notin AliasSet(e))
                       => n \notin AliasSet(Get(horseMapping', p))]_vars

\* a merge into the new primary '2022 Gin' has absorbed the entry 'GIN 22'
\* with its owner Bob and has left '2022Sto', an alias of 'Sto', where it was
C16_Witness ==
    /\ request.op = "merge" /\ response.status = 200
    /\ request.primaryName = N2022Gin
    /\ request.names = <<NGIN22, N2022Sto>>
    /\ HasKey(horseMapping, N2022Gin) /\ ~HasKey(horseMapping, NGIN22)
    /\ Get(horseMapping, N2022Gin).owner = "Bob"
    /\ Get(horseMapping, N2022Gin).aliases = <<NGIN22>>
    /\ HasKey(horseMapping, NSto)
    /\ N2022Sto \in AliasSet(Get(horseMapping, NSto))


RenameAnswered == request'.op = "rename" /\ response'.status = 200

\* C17: after a successful Rename(old, new), new is a canonical entry carrying
\* old's owner, country, historic flag and aliases, old is no longer a
\* canonical entry, and resolving old or any former alias of old returns new.
C17_RenameCarriesAndResolves ==
    [][RenameAnswered =>
        LET old == request'.primaryName
            new == request'.names[1]
            was == EntryOrBlank(horseMapping, old)
        IN  /\ HasKey(horseMapping', new)
            /\ Get(horseMapping', new).owner = was.owner
            /\ Get(horseMapping', new).country = was.country
            /\ Get(horseMapping', new).isHistoric = was.isHistoric
            /\ AliasSet(was) \subseteq AliasSet(Get(horseMapping', new))
            /\ ~HasKey(horseMapping', old)
            /\ resolveHorseAlias(old, horseMapping') = new
            /\ \A a \in AliasSet(was) : resolveHorseAlias(a, horseMapping') = new]_vars


UnmergeAnswered == request'.op = "unmerge" /\ response'.status = 200

\* C18: after a successful Unmerge(primary, alias), alias is no longer in
\* primary's alias set, alias is a canonical entry with blank owner and
\* country, and resolving alias returns alias itself rather than primary.
C18_UnmergeMakesIndependent ==
    [][UnmergeAnswered =>
        LET p == request'.primaryName
            a == request'.names[1]
        IN  /\ HasKey(horseMapping', p)
            /\ a \notin AliasSet(Get(horseMapping', p))
            /\ HasKey(horseMapping', a)
            /\ Get(horseMapping', a).owner = ""
            /\ Get(horseMapping', a).country = ""
            /\ resolveHorseAlias(a, horseMapping') = a]_vars


\* the request of the step is one the handlers reject: arguments missing,
\* unmerge from an unknown primary or of a name that is not among the
\* primary's aliases, rename to the same name or to an existing canonical name
MustReject(req, m) ==
    LET a == req.primaryName
        lst == req.names
        b == IF lst = <<>> THEN <<>> ELSE lst[1]
    IN  \/ req.op = "merge" /\ (a = <<>> \/ lst = <<>>)
        \/ req.op = "unmerge" /\ \/ a = <<>> \/ b = <<>>
                                 \/ ~HasKey(m, a)
                                 \/ b \notin AliasSet(Get(m, a))
        \/ req.op = "rename" /\ \/ a = <<>> \/ b = <<>>
                                \/ toLowerCase(a) = toLowerCase(b)
                                \/ HasKey(m, b)

\* C19: a merge, unmerge or rename request that is rejected (missing
\* arguments, unknown primary, alias not in the primary's set, new name equal
\* to the old name, new name already a canonical entry) gets a failure
\* response and leaves the stored registry exactly as it was.
C19_RejectedLeavesRegistry ==
    [][request'.op \in {"merge", "unmerge", "rename"} =>
        /\ MustReject(request', horseMapping) => response'.status \in {400, 404}
        /\ response'.status # 200 => horseMapping' = horseMapping]_vars

\* an unmerge of a name that is not an alias of its primary was answered 404
\* on a registry that holds entries with owners and aliases
C19_Witness ==
    /\ request.op = "unmerge" /\ response.status = 404
    /\ HasKey(horseMapping, request.primaryName)
    /\ AliasSet(Get(horseMapping, request.primaryName)) # {}
    /\ request.names[1] \notin AliasSet(Get(horseMapping, request.primaryName))
    /\ Get(horseMapping, request.primaryName).owner # ""


(***************************************************************************)
(* Two save requests in flight: POST /api/race-charts/save step by step    *)
(***************************************************************************)
\* With Redis every await of the handler is a network round trip, so another
\* request can be served between two of them, and getSession returns a fresh
\* copy of what is stored.  Without Redis no await of the handler waits for
\* I/O: the handler runs to its response before another request is read, as
\* in SaveRaces.
Waiting == [stage |-> "idle", races |-> <<>>, pending |-> <<>>,
            st |-> [data |-> NoSession, mapping |-> <<>>, saved |-> <<>>,
                    skipped |-> <<>>]]

\* the two requests
SaveBatchIds == {"A", "B"}

\* "Get current session data": the local sessionData of the request
BeginSave(b, races) ==
    /\ redis
    /\ inFlight[b].stage = "idle"
    /\ request' = SaveRequestBody(races)
    /\ opCount' = opCount + (IF races = <<>> THEN 1 ELSE Len(races))
    /\ IF races = <<>>
       THEN /\ response' = Failure(400)
            /\ inFlight' = [inFlight EXCEPT ![b].stage = "done"]
       ELSE /\ inFlight' = [inFlight EXCEPT
                               ![b].stage = "loop",
                               ![b].races = races,
                               ![b].st.data =
                                   IF session.exists THEN session
                                   ELSE [exists |-> TRUE, horseData |-> <<>>,
                                         allHorseDetailData |-> <<>>]]
            /\ UNCHANGED response
    /\ UNCHANGED <<redis, session, horseMapping, positionVars, classVars, timeVars, pc>>

\* one turn of the for loop over races: the duplicate guard reads the stored
\* session, the entry is pushed on the local history, the mapping is read
SaveNextRace(b) ==
    /\ inFlight[b].stage = "loop"
    /\ inFlight[b].races # <<>>
    /\ \E st \in {saveOne([inFlight[b].st EXCEPT !.mapping = horseMapping],
                          Head(inFlight[b].races), session)} :
           inFlight' = [inFlight EXCEPT
                           ![b].st = st,
                           ![b].races = Tail(@),
                           ![b].pending = st.mapping,
                           ![b].stage = IF st.mapping # horseMapping THEN "mapping"
                                        ELSE "loop"]
    /\ UNCHANGED <<redis, session, horseMapping, request, response, opCount,
                   positionVars, classVars, timeVars, pc>>

\* await saveHorseMapping(horseMapping) of the turn that added a new horse
SaveNewHorse(b) ==
    /\ inFlight[b].stage = "mapping"
    /\ horseMapping' = inFlight[b].pending
    /\ inFlight' = [inFlight EXCEPT ![b].stage = "loop"]
    /\ UNCHANGED <<redis, session, request, response, opCount,
                   positionVars, classVars, timeVars, pc>>

\* the session saveSession stores on top of one that merges what is stored
finishStore_Merging(stored, st) ==
    LET h == st.data.allHorseDetailData
        kept == IF stored.exists
                THEN SelectSeq(stored.allHorseDetailData,
                               LAMBDA x : ~HasHistory(h, x.key))
                ELSE <<>>
    IN  [exists |-> TRUE,
         horseData |-> updateSummaries(st.data.horseData, h \o kept, st.saved),
         allHorseDetailData |-> h \o kept]

\* the session saveSession stores: the local horseData and allHorseDetailData
finishStore(stored, st) ==
    [exists |-> TRUE,
     horseData |-> updateSummaries(st.data.horseData, st.data.allHorseDetailData,
                                   st.saved),
     allHorseDetailData |-> st.data.allHorseDetailData]

\* after the loop: the summary update, saveSession and the response
FinishSave(b) ==
    /\ inFlight[b].stage = "loop"
    /\ inFlight[b].races = <<>>
    /\ session' = finishStore(session, inFlight[b].st)
    /\ response' = [status |-> 200, aliases |-> <<>>,
                    savedRaces |-> inFlight[b].st.saved,
                    skippedRaces |-> inFlight[b].st.skipped]
    /\ inFlight' = [inFlight EXCEPT ![b].stage = "done"]
    /\ UNCHANGED <<redis, horseMapping, request, opCount,
                   positionVars, classVars, timeVars, pc>>

\* the reviewed races of the two requests: a work day of 'GIN 22' is stored
\* with the sheet; '2022Sto' is typed in as a new horse
OverlapRaces ==
    { [horseName |-> NGIN22, date |-> "02/10/2025", track |-> "SAR",
       isNewHorse |-> FALSE, owner |-> "", country |-> ""],
      [horseName |-> NSto, date |-> "01/05/2025", track |-> "SAR",
       isNewHorse |-> FALSE, owner |-> "", country |-> ""],
      [horseName |-> N2022Sto, date |-> "01/05/2025", track |-> "GP",
       isNewHorse |-> TRUE, owner |-> "Ann", country |-> ""] }

\* bounds: races per request, race records submitted without Redis
MaxOverlapRaces == 2
MaxOverlapWork == 2

OverlapBatches ==
    LET all == SeqsUpTo(OverlapRaces, MaxOverlapRaces)
    IN  [n \in 0..MaxOverlapRaces |-> {b \in all : Len(b) = n}]

InitOverlap ==
    /\ redis \in BOOLEAN
    /\ horseMapping = <<>>
    /\ session \in {NoSession, SheetSession}
    /\ request = NoRequest
    /\ response = Success(<<>>)
    /\ opCount = 0
    /\ inFlight = [b \in SaveBatchIds |-> Waiting]
    /\ IdlePositions /\ IdleClass /\ IdleTime
    /\ pc = "served"

OverlapBegin ==
    \E b \in SaveBatchIds, n \in 0..MaxOverlapRaces :
        \E races \in OverlapBatches[n] : BeginSave(b, races)

OverlapRace == \E b \in SaveBatchIds : SaveNextRace(b)

OverlapNewHorse == \E b \in SaveBatchIds : SaveNewHorse(b)

OverlapFinish == \E b \in SaveBatchIds : FinishSave(b)

\* without Redis: the whole handler at once
OverlapMemorySave ==
    /\ ~redis
    /\ opCount < MaxOverlapWork
    /\ \E n \in 1..MaxOverlapRaces :
           /\ n <= MaxOverlapWork - opCount
           /\ \E races \in OverlapBatches[n] : SaveRaces(races)

NextOverlap ==
    OverlapBegin \/ OverlapRace \/ OverlapNewHorse \/ OverlapFinish
        \/ OverlapMemorySave

SpecOverlap == InitOverlap /\ [][NextOverlap]_vars

\* request b stores its session in the step
Writes(b) == inFlight[b].stage = "loop" /\ inFlight'[b].stage = "done"

\* the race is in the history
InHistory(h, saved) ==
    \E i \in 1..Len(h) :
        /\ h[i].key = saved.horseName
        /\ \E j \in 1..Len(h[i].entries) :
               h[i].entries[j].isRace /\ h[i].entries[j].date = saved.date

\* C20: two save requests overlap without mutual exclusion and the last write
\* wins: a step of a request stores a new history only where the request
\* writes, whatever state the other request is in, and the history stored
\* then (the final one when the write is the last) is exactly the local
\* history of the writer.
C20_LastWriteWins ==
    [][redis =>
         /\ \A b \in SaveBatchIds :
                Writes(b) =>
                    session'.allHorseDetailData = inFlight[b].st.data.allHorseDetailData
         /\ (\A b \in SaveBatchIds : ~Writes(b)) => session' = session]_vars

\* both requests were answered and a race that one of them reported as saved
\* is absent from the stored history
C20_Witness ==
    /\ redis
    /\ \A b \in SaveBatchIds : inFlight[b].stage = "done"
    /\ \E b \in SaveBatchIds :
           \E i \in 1..Len(inFlight[b].st.saved) :
               ~InHistory(session.allHorseDetailData, inFlight[b].st.saved[i])


\* the canonical name k matches x exactly (case-insensitively)
ExactMatch(k, x) == toLowerCase(k) = trim(toLowerCase(x))

\* the canonical name k matches x by the normalized key and in no other way
NormalizedOnlyMatch(k, x) ==
    /\ ~ExactMatch(k, x)
    /\ stripped(k) # stripped(x)
    /\ normalizeHorseNameForMatch(k) = normalizeHorseNameForMatch(x)

\* C21: when one canonical name matches the name exactly (case-insensitively)
\* and a different canonical name matches it only by normalized key,
\* resolveHorseAlias returns the exactly matching canonical name, whatever the
\* order of the entries.
C21_ExactMatchWins ==
    \A x \in QuerySpellings :
        \A i \in 1..Len(horseMapping), j \in 1..Len(horseMapping) :
            (/\ ExactMatch(horseMapping[i].name, x)
             /\ NormalizedOnlyMatch(horseMapping[j].name, x))
                => resolveHorseAlias(x, horseMapping) = horseMapping[i].name


(***************************************************************************)
(* parseHorseFromChart on rows with finishing calls                        *)
(***************************************************************************)
CallTimes == { <<"1", ":", "1", "1", ".", "0", "7">>,
               <<"2", ":", "0", "5", ".", "3", "3">> }

\* digit runs of the calls: four or five calls, with and without a 10th place
CallRuns ==
    { <<"7", "4", "2", "2">>, <<"3", "1", "1", "1", "2">>, <<"1", "1", "1", "1">>,
      <<"1", "0", "9", "7">>, <<"1", "0", "9", "7", "6">>,
      <<"1", "0", "9", "7", "6", "5">>, <<"1", "0", "1", "0", "9", "7", "6">> }

\* the calls as space-separated tokens: PP, St, then the positions
TokenCalls == <<" ", "4", " ", "3", " ", "1", "0", " ", "1", " ", "1", " ", "1",
                " ", "g", "o", "n">>

\* what follows the final time: the calls, or the calls and then the start of
\* the next horse's row (comment, time, calls)
CallTails ==
    CallRuns \cup {TokenCalls}
        \cup { r1 \o <<" ", "g", "o", "n", " ">> \o t \o r2 :
                   r1 \in CallRuns, t \in CallTimes, r2 \in CallRuns }

CallRows ==
    { lead \o t \o tail : lead \in {<<>>, <<"2", "3", ".", "1", "2">>},
                          t \in CallTimes, tail \in CallTails }

InitCalls ==
    /\ afterHorse \in CallRows
    /\ finalTime = <<>>
    /\ pc = "start"
    /\ IdleStore /\ IdlePositions /\ IdleClass

SpecCalls == InitCalls /\ [][NextTime]_vars

\* C22: no finishing position decoded from a horse row is 0: wherever a '1' is
\* immediately followed by '0' in the digit run after the final time, the
\* calls hold a 10, for digit runs of every length.
C22_NoPositionZero ==
    (pc = "done" /\ finalTime # NoTime) =>
        /\ \A i \in 1..Len(positions) : positions[i] # 0
        /\ \A c \in 1..4 : reportedCalls(positions)[c].given
                               => reportedCalls(positions)[c].pos # 0
        /\ includes(digitsStr, <<"1", "0">>) => \E i \in 1..Len(positions) : positions[i] = 10

\* C23: the positions are decoded from the digit run that immediately follows
\* the first occurrence of the selected final time, also when the same time
\* string occurs again later in the row.
C23_CallsFollowFirstTime ==
    (pc = "done" /\ finalTime # NoTime) =>
        LET first == FirstOccurrence(afterHorse)
            run == digitsOnlyOf(Drop(afterHorse, first - 1 + MinuteTimeLen))
        IN  /\ digitsStr = run
            /\ Len(run) >= 4 => positions = parsePositions(run, expectedPositionsOf(run))


\* the name matches no canonical name and no alias of the registry
Unresolved(n, m) ==
    \A i \in 1..Len(m) : ~NameMatches(m[i].name, n) /\ ~AliasMatches(m[i], n)

\* C24: after a race is committed for a horse name that resolves to no
\* registry entry, the registry holds a canonical entry for that name with
\* blank owner and country and the non-historic flag.
C24_CommitRegistersHorse ==
    [][(request'.op = "save" /\ response'.status = 200) =>
          \A i \in 1..Len(response'.savedRaces) :
              LET n == response'.savedRaces[i].horseName
              IN  Unresolved(n, horseMapping) =>
                      \E j \in 1..Len(horseMapping') :
                          /\ ExactMatch(horseMapping'[j].name, n)
                          /\ horseMapping'[j].owner = ""
                          /\ horseMapping'[j].country = ""
                          /\ ~horseMapping'[j].isHistoric]_vars

(***************************************************************************)
(* The store under save requests whose races carry the dates of the review *)
(* form, the blank of an undated chart included                            *)
(***************************************************************************)
\* the date field of the review form is free text: a date, or the blank
\* shown for a chart whose date was not found; the horses are 'GIN 22' and
\* 'Sto' of the sheet and a third horse 'GIN'
DatedRaces ==
    { [horseName |-> n, date |-> d, track |-> "SAR", isNewHorse |-> FALSE,
       owner |-> "", country |-> ""] :
          n \in {NGIN22, NSto, UGIN}, d \in {"01/05/2025", "02/10/2025", ""} }

\* bounds: races per save request, races submitted per behaviour
MaxDatedRaces == 2
MaxDatedWork == 3

DatedBatches ==
    LET all == SeqsUpTo(DatedRaces, MaxDatedRaces)
    IN  [n \in 0..MaxDatedRaces |-> {b \in all : Len(b) = n}]

InitDated ==
    /\ redis \in BOOLEAN
    /\ horseMapping = <<>>
    /\ session \in {NoSession, SheetSession}
    /\ request = NoRequest
    /\ response = Success(<<>>)
    /\ opCount = 0
    /\ IdleCalls

DatedSaveRequest ==
    /\ opCount < MaxDatedWork
    /\ \E n \in 0..MaxDatedRaces :
           /\ n <= MaxDatedWork - opCount
           /\ \E races \in DatedBatches[n] : SaveRaces(races)

NextDated == DatedSaveRequest

SpecDated == InitDated /\ [][NextDated]_vars

\* the entries that have a date are in order, newest first
NewestFirst(entries) ==
    \A i, j \in 1..Len(entries) :
        (i < j /\ IsValidDate(entries[i].date) /\ IsValidDate(entries[j].date))
            => DateValue(entries[i].date) >= DateValue(entries[j].date)

\* C25: after a confirmed save batch, the stored history of every horse that
\* received a race in the batch is ordered by date, newest first.
C25_SavedHistoryNewestFirst ==
    [][(request'.op = "save" /\ response'.status = 200) =>
          \A i \in 1..Len(response'.savedRaces) :
              NewestFirst(EntriesOf(session'.allHorseDetailData,
                                    response'.savedRaces[i].horseName))]_vars

(***************************************************************************)
(* An upload batch in flight: POST /api/upload/race-charts step by step,   *)
(* with save requests served between its awaits                            *)
(***************************************************************************)
\* the locals of the upload handler: req.files, the files still to process,
\* existingHorses and sessionData as read before the loop, and results
NoUpload == [stage |-> "idle", reqFiles |-> <<>>, files |-> <<>>,
             existingHorses |-> <<>>, sessionData |-> NoSession, results |-> <<>>]

\* "Get existing horses for fuzzy matching": getHorseMapping and getSession
BeginUpload(files) ==
    /\ redis
    /\ inFlight.stage # "loop"
    /\ request' = UploadRequestBody(files)
    /\ opCount' = opCount + (IF files = <<>> THEN 1 ELSE Len(files))
    /\ IF files = <<>>
       THEN /\ response' = [status |-> 400, results |-> <<>>]
            /\ inFlight' = [NoUpload EXCEPT !.stage = "done"]
       ELSE /\ inFlight' = [stage |-> "loop", reqFiles |-> files, files |-> files,
                            existingHorses |-> existingHorsesOf(horseMapping, session),
                            sessionData |-> session, results |-> <<>>]
            /\ UNCHANGED response
    /\ UNCHANGED <<redis, session, horseMapping, positionVars, classVars, timeVars, pc>>

\* one turn of the loop over req.files: the file is parsed and matched against
\* existingHorses; checkDuplicateRace reads the session that is stored now
UploadNextFile ==
    /\ inFlight.stage = "loop"
    /\ inFlight.files # <<>>
    /\ inFlight' = [inFlight EXCEPT
                       !.files = Tail(@),
                       !.results = Append(@, processFile(Head(inFlight.files),
                                                         inFlight.existingHorses,
                                                         session))]
    /\ UNCHANGED <<redis, session, horseMapping, request, response, opCount,
                   positionVars, classVars, timeVars, pc>>

\* after the loop: res.json with the results and their counts
FinishUpload ==
    /\ inFlight.stage = "loop"
    /\ inFlight.files = <<>>
    /\ response' = [status |-> 200,
                    results |-> inFlight.results,
                    totalProcessed |-> Len(inFlight.results),
                    successfulMatches |-> CountOf(inFlight.results, IsReady),
                    needsVerification |-> CountOf(inFlight.results, IsFlagged),
                    duplicates |-> CountOf(inFlight.results, IsDuplicateResult)]
    /\ inFlight' = [inFlight EXCEPT !.stage = "done"]
    /\ UNCHANGED <<redis, session, horseMapping, request, opCount,
                   positionVars, classVars, timeVars, pc>>

\* the documents of the batches: charts of 'Gin' read in full, one whose
\* horse has no match, one that cannot be read
BatchDocuments ==
    { d \in Documents : d.fileName \in {"bad.pdf", "a.pdf", "d.pdf", "j.pdf"} }

\* bounds: files per upload batch; files processed and races saved per
\* behaviour
MaxBatchFiles == 2
MaxBatchWork == 3

BatchFiles ==
    LET all == SeqsUpTo(BatchDocuments, MaxBatchFiles)
    IN  [n \in 0..MaxBatchFiles |-> {b \in all : Len(b) = n}]

\* the session stored by a sheet upload with a work day of 'GIN'
BatchSession ==
    [exists |-> TRUE,
     horseData |-> << SheetRow(UGIN, "02/10/2025") >>,
     allHorseDetailData |->
         << [key |-> UGIN, entries |-> <<WorkEntry(UGIN, "02/10/2025")>>] >>]

InitBatch ==
    /\ redis \in BOOLEAN
    /\ horseMapping = <<>>
    /\ session \in {NoSession, BatchSession}
    /\ request = NoRequest
    /\ response = Success(<<>>)
    /\ opCount = 0
    /\ inFlight = NoUpload
    /\ IdlePositions /\ IdleClass /\ IdleTime
    /\ pc = "served"

BatchBegin ==
    /\ opCount < MaxBatchWork
    /\ \E n \in 0..MaxBatchFiles :
           /\ n <= MaxBatchWork - opCount
           /\ \E files \in BatchFiles[n] : BeginUpload(files)

\* a save request of the review page, served whole between two awaits of the
\* batch
BatchSaveRequest ==
    /\ opCount < MaxBatchWork
    /\ \E race \in UploadReviewedRaces : SaveRaces(<<race>>)

\* without Redis: the whole upload handler at once
BatchMemoryUpload ==
    /\ ~redis
    /\ opCount < MaxBatchWork
    /\ \E n \in 0..MaxBatchFiles :
           /\ n <= MaxBatchWork - opCount
           /\ \E files \in BatchFiles[n] : UploadRaceCharts(files)

NextBatch ==
    BatchBegin \/ UploadNextFile \/ FinishUpload \/ BatchSaveRequest
        \/ BatchMemoryUpload

SpecBatch == InitBatch /\ [][NextBatch]_vars

\* C26: the result produced for a document of an upload batch depends only on
\* the document and on the registry and history as read at the start of the
\* batch: a save request that completes while the batch is being parsed
\* changes no field (the duplicate flag included) of any result of the batch.
C26_ResultsFromBatchStart ==
    [][(inFlight.stage = "loop" /\ inFlight'.stage = "done") =>
          response'.results = uploadLoop(inFlight.reqFiles, inFlight.existingHorses,
                                         inFlight.sessionData, <<>>)]_vars

(***************************************************************************)
(* POST /api/horses (add/update) and the registry under add/update, merge, *)
(* unmerge and rename requests                                             *)
(***************************************************************************)
AddRequestBody(name, owner, country, isHistoric) ==
    [op |-> "add", primaryName |-> name, names |-> <<>>, races |-> <<>>,
     owner |-> owner, country |-> country, isHistoric |-> isHistoric]

\* the key POST /api/horses stores under: the first key equal to the name in
\* lower case, else the first key equal with the special characters stripped,
\* else the name itself
keyToUse(m, name) ==
    LET byCase == FindKey(m, LAMBDA k : toLowerCase(k) = toLowerCase(name))
        byStripped == FindKey(m, LAMBDA k : stripped(k) = stripped(name))
    IN  IF byCase # <<>> THEN byCase
        ELSE IF byStripped # <<>> THEN byStripped
        ELSE name

\* the handler on a store without a session: the step that regenerates the
\* summary rows of a stored session is not taken
AddHorse(name, owner, country, isHistoric) ==
    /\ ~session.exists
    /\ request' = AddRequestBody(name, owner, country, isHistoric)
    /\ opCount' = opCount + 1
    /\ IF name = <<>>
       THEN /\ response' = Failure(400)
            /\ UNCHANGED horseMapping
       ELSE /\ horseMapping' = Put(horseMapping, keyToUse(horseMapping, name),
                                   addedEntry(keyToUse(horseMapping, name),
                                              owner, country, isHistoric))
            /\ response' = Success(<<>>)
    /\ UNCHANGED <<redis, session, positionVars, classVars, timeVars, pc, inFlight>>

\* what the owner enters for a horse: nothing, or owner, country and the
\* historic flag
OwnerDetails == { <<"", "", FALSE>>, <<"Ann", "US", TRUE>> }

\* bound: requests per behaviour
MaxAddRequests == 3

InitAdd ==
    /\ redis \in BOOLEAN
    /\ horseMapping = <<>>
    /\ session = NoSession
    /\ request = NoRequest
    /\ response = Success(<<>>)
    /\ opCount = 0
    /\ IdleCalls

AddRequest ==
    /\ opCount < MaxAddRequests
    /\ \E name \in RegistryNames \cup {<<>>}, d \in OwnerDetails :
           AddHorse(name, d[1], d[2], d[3])

AddMergeRequest ==
    /\ opCount < MaxAddRequests
    /\ \E primaryName \in RegistryNames \cup {<<>>}, aliasNames \in AliasNameLists :
           MergeHorses(primaryName, aliasNames)

AddUnmergeRequest ==
    /\ opCount < MaxAddRequests
    /\ \E primaryName \in RegistryNames, aliasName \in RegistryNames \cup {<<>>} :
           UnmergeHorse(primaryName, aliasName)

AddRenameRequest ==
    /\ opCount < MaxAddRequests
    /\ \E oldName \in RegistryNames \cup {<<>>}, newName \in RegistryNames :
           RenameHorse(oldName, newName)

NextAdd == AddRequest \/ AddMergeRequest \/ AddUnmergeRequest \/ AddRenameRequest

SpecAdd == InitAdd /\ [][NextAdd]_vars

\* C27: canonical names and aliases stay disjoint: after any sequence of
\* add/update, merge, rename and unmerge requests no string is both a
\* canonical name of the registry and a member of an entry's alias set (its
\* own or another's).
C27_NamesAndAliasesDisjoint ==
    \A i \in 1..Len(horseMapping), j \in 1..Len(horseMapping) :
        horseMapping[i].name \notin AliasSet(horseMapping[j])

\* C28: updating an existing horse through the add/update request changes
\* only its owner, country and historic flag: the alias set of the entry is
\* the same before and after, so the names that resolved to the entry still
\* resolve to it.
C28_UpdateKeepsAliases ==
    [][(request'.op = "add" /\ response'.status = 200
            /\ HasKey(horseMapping, keyToUse(horseMapping, request'.primaryName))) =>
          LET k == keyToUse(horseMapping, request'.primaryName)
          IN  /\ HasKey(horseMapping', k)
              /\ AliasSet(Get(horseMapping', k)) = AliasSet(Get(horseMapping, k))
              /\ \A x \in QuerySpellings :
                     resolveHorseAlias(x, horseMapping) = k
                         => resolveHorseAlias(x, horseMapping') = k]_vars

\* C29: resolution is idempotent: for every registry reachable through
\* add/update, merge, rename and unmerge requests and every name x,
\* resolveHorseAlias(resolveHorseAlias(x)) equals resolveHorseAlias(x).
C29_ResolutionIdempotent ==
    \A x \in QuerySpellings :
        resolveHorseAlias(resolveHorseAlias(x, horseMapping), horseMapping)
            = resolveHorseAlias(x, horseMapping)

\* C30: the duplicate guard reports no false duplicates: a record is marked
\* duplicate only if the history of that same horse contains a race entry
\* with the same date and track; a race entry of a different horse, one whose
\* name contains or is contained in the record's horse name included, never
\* makes the record a duplicate.
C30_NoFalseDuplicate ==
    [][(request'.op = "save" /\ response'.status = 200) =>
          \A i \in 1..Len(response'.skippedRaces) :
              LET s == response'.skippedRaces[i]
              IN  \E j \in 1..Len(request'.races) :
                      LET r == request'.races[j]
                          entries == EntriesOf(session'.allHorseDetailData, s.horseName)
                      IN  /\ toLowerCase(r.horseName) = toLowerCase(s.horseName)
                          /\ r.date = s.date
                          /\ \E k \in 1..Len(entries) :
                                 IsDuplicateEntry(entries[k], r.date, r.track)]_vars

====
